---- MODULE Spec2Model ----
(***************************************************************************)
(* mcp-server-images: the generate_image tool call (server.py), the two    *)
(* provider clients (providers/stability.py, providers/bfl.py) and the     *)
(* destination-path computation (utils/filename.py) as a state machine.    *)
(*                                                                         *)
(* One task is one invocation of generate_image_tool.  Every await of the  *)
(* code (a network call, the sleep, the close) ends an action; what the    *)
(* network, the JSON bodies and the file system answer is chosen by \E     *)
(* from small sets.  Texts are real strings, built as the f-strings of the *)
(* code build them, so that "contains" and "differs" are decided on        *)
(* characters.                                                             *)
(***************************************************************************)
EXTENDS Integers, Sequences, FiniteSets, TLC

VARIABLES
  env,        \* os.environ: the two credential variables
  now,        \* datetime.now(), as the clock shows it
  files,      \* the file system: path -> bytes, for the files that exist
  dirs,       \* the directories that exist
  nreq,       \* tool calls started so far
  tasks,      \* the tasks (coroutines) that may run tool calls
  pc,         \* per task: where generate_image_tool stands
  req,        \* per task: the arguments of the tool call
  outPath,    \* per task: output_path (server.py:140), NoPath before
  model,      \* per task: the local variable model (server.py:106, 137)
  client,     \* per task: the provider client's httpx.AsyncClient
  dlClient,   \* per task: the download client (bfl.py:146)
  attempt,    \* per task: the poll attempt counter (bfl.py:126)
  reply,      \* per task: what the generation or submit request ended with
  pollData,   \* per task: result_data of the last status poll (bfl.py:137)
  pollReply,  \* per task: what the last status poll ended with (bfl.py:132)
  content,    \* per task: the image bytes received
  sent,       \* per task: the request sent to the backend: route and body
  exc,        \* per task: the exception on its way to the tool's except
  result,     \* per task: the dict generate_image returned
  response,   \* per task: the list[TextContent] the tool returned
  propagated, \* per task: an exception left generate_image_tool
  eff         \* per task: what the call did so far (history counters)

vars == <<env, now, files, dirs, nreq, tasks, pc, req, outPath, model, client,
          dlClient, attempt, sent, reply, pollData, pollReply, content, exc,
          result, response, propagated, eff>>

-----------------------------------------------------------------------------
(* Bounds of the model *)

\* tasks that exist (each runs one tool call at a time)
MaxTasks == 2

\* tool calls started in one behaviour
MaxRequests == 2

-----------------------------------------------------------------------------
(* Program constants *)

\* bfl.py:125
max_attempts == 120

\* stability.py:84, stability.py:86
MaxPromptLen == 10000

AllTasks == 1..MaxTasks

-----------------------------------------------------------------------------
(* Python values *)

None == [some |-> FALSE]

Some(v) == [some |-> TRUE, val |-> v]

\* bool(x) of an Optional[str]: None and "" are falsy
Truthy(o) == o.some /\ o.val # ""

\* str(x) of an Optional[str] inside an f-string
StrOpt(o) == IF o.some THEN o.val ELSE "None"

\* s contains t as a substring
Contains(s, t) ==
  \E i \in 0..(Len(s) - Len(t)) : SubSeq(s, i + 1, i + Len(t)) = t

\* s.endswith(t)
EndsWith(s, t) ==
  Len(s) >= Len(t) /\ SubSeq(s, Len(s) - Len(t) + 1, Len(s)) = t

\* s.startswith(t)
StartsWith(s, t) == Len(s) >= Len(t) /\ SubSeq(s, 1, Len(t)) = t

\* dict.get(key, default)
Get(d, key, default) == IF key \in DOMAIN d THEN d[key] ELSE default

-----------------------------------------------------------------------------
(* Exceptions: a class and str(e) *)

NoExc == [cls |-> "", msg |-> ""]

Raise(c, m) == [cls |-> c, msg |-> m]

\* The classes an exception of class c is an instance of (Python built-ins
\* and httpx's hierarchy: TimeoutException < TransportError < HTTPError,
\* HTTPStatusError < HTTPError).
Bases(c) ==
  CASE c = "ValueError"      -> {"ValueError", "Exception"}
    [] c = "RuntimeError"    -> {"RuntimeError", "Exception"}
    [] c = "KeyError"        -> {"KeyError", "LookupError", "Exception"}
    [] c = "AttributeError"  -> {"AttributeError", "Exception"}
    [] c = "OSError"         -> {"OSError", "Exception"}
    [] c = "JSONDecodeError" -> {"JSONDecodeError", "ValueError", "Exception"}
    [] c = "ReadTimeout"     -> {"ReadTimeout", "TimeoutException",
                                 "TransportError", "HTTPError", "Exception"}
    [] c = "ConnectError"    -> {"ConnectError", "TransportError", "HTTPError",
                                 "Exception"}
    [] c = "HTTPStatusError" -> {"HTTPStatusError", "HTTPError", "Exception"}
    [] OTHER                 -> {}

IsInstance(e, c) == c \in Bases(e.cls)

-----------------------------------------------------------------------------
(* HTTP responses and their bodies *)

\* The bodies the backends answer with in this model.
BodyMessage == "{\"message\": \"Invalid prompt\"}"

BodyNoMessage == "{\"name\": \"bad_request\"}"

BodyHtml == "<html>Bad Gateway</html>"

BodyList == "[\"error\"]"

BodyJob == "{\"id\": \"job-1\"}"

BodyEmpty == "{}"

BodyPending == "{\"status\": \"Pending\"}"

BodyModerated == "{\"status\": \"Request Moderated\"}"

BodyError == "{\"status\": \"Error\"}"

BodyReadyLower == "{\"status\": \"ready\"}"

BodyReady == "{\"status\": \"Ready\", \"result\": {\"sample\": \"https://dl/img\"}}"

BodyReadyNoResult == "{\"status\": \"Ready\"}"

BodyFailedNsfw == "{\"status\": \"Failed\", \"error\": \"NSFW content detected\"}"

BodyFailedLikeTimeout ==
  "{\"status\": \"Failed\", \"error\": \"BFL generation timed out after 120 seconds\"}"

BodyFailedNoError == "{\"status\": \"Failed\"}"

\* response.json(): [ok, kind, val]; ok = FALSE is json.JSONDecodeError.
ParseJson(text) ==
  CASE text = BodyMessage   -> [ok |-> TRUE, kind |-> "object",
                                val |-> [message |-> "Invalid prompt"]]
    [] text = BodyNoMessage -> [ok |-> TRUE, kind |-> "object",
                                val |-> [name |-> "bad_request"]]
    [] text = BodyList      -> [ok |-> TRUE, kind |-> "list", val |-> <<"error">>]
    [] text = BodyJob       -> [ok |-> TRUE, kind |-> "object",
                                val |-> [id |-> "job-1"]]
    [] text = BodyEmpty     -> [ok |-> TRUE, kind |-> "object", val |-> <<>>]
    [] text = BodyPending   -> [ok |-> TRUE, kind |-> "object",
                                val |-> [status |-> "Pending"]]
    [] text = BodyModerated -> [ok |-> TRUE, kind |-> "object",
                                val |-> [status |-> "Request Moderated"]]
    [] text = BodyError     -> [ok |-> TRUE, kind |-> "object",
                                val |-> [status |-> "Error"]]
    [] text = BodyReadyLower -> [ok |-> TRUE, kind |-> "object",
                                 val |-> [status |-> "ready"]]
    [] text = BodyReady     -> [ok |-> TRUE, kind |-> "object",
                                val |-> [status |-> "Ready",
                                         result |-> [sample |-> "https://dl/img"]]]
    [] text = BodyReadyNoResult -> [ok |-> TRUE, kind |-> "object",
                                    val |-> [status |-> "Ready"]]
    [] text = BodyFailedNsfw -> [ok |-> TRUE, kind |-> "object",
                                 val |-> [status |-> "Failed",
                                          error |-> "NSFW content detected"]]
    [] text = BodyFailedLikeTimeout ->
         [ok |-> TRUE, kind |-> "object",
          val |-> [status |-> "Failed",
                   error |-> "BFL generation timed out after 120 seconds"]]
    [] text = BodyFailedNoError -> [ok |-> TRUE, kind |-> "object",
                                    val |-> [status |-> "Failed"]]
    [] OTHER -> [ok |-> FALSE, kind |-> "", val |-> <<>>]

\* What one awaited httpx call ends with: a response, or an exception.
Response(code, text) ==
  [kind |-> "response", status_code |-> code, text |-> text, exc |-> NoExc]

NetTimeout ==
  [kind |-> "raise", status_code |-> 0, text |-> "",
   exc |-> Raise("ReadTimeout", "")]

NetDown ==
  [kind |-> "raise", status_code |-> 0, text |-> "",
   exc |-> Raise("ConnectError", "All connection attempts failed")]

\* The image the backend returns
ImageBytes == "PNGDATA"

\* The values of the Seed header of a generation response: numerals, a text
\* that is no number, the empty text
SeedHeaders == {"0", "123", "abc", ""}

\* The 200 of Stability with the image and the header Seed: h
SeedResponse(h) ==
  [kind |-> "response", status_code |-> 200, text |-> ImageBytes,
   exc |-> NoExc, headers |-> [Seed |-> h]]

\* response.headers.get(name)
HeaderGet(a, name) ==
  IF "headers" \in DOMAIN a /\ name \in DOMAIN a.headers
    THEN Some(a.headers[name])
    ELSE None

\* The value of the decimal digit c
DigitValue(c) == CHOOSE d \in 0..9 : ToString(d) = c

\* int(h) of a text of decimal digits, read from the left
RECURSIVE DigitsValue(_)
DigitsValue(h) ==
  IF Len(h) = 0 THEN 0
  ELSE 10 * DigitsValue(SubSeq(h, 1, Len(h) - 1))
       + DigitValue(SubSeq(h, Len(h), Len(h)))

\* int(h) for the header values of the model: [ok, val]; ok = FALSE is
\* ValueError
ParseInt(h) ==
  IF Len(h) > 0
     /\ \A i \in 1..Len(h) : \E d \in 0..9 : ToString(d) = SubSeq(h, i, i)
    THEN [ok |-> TRUE, val |-> DigitsValue(h)]
    ELSE [ok |-> FALSE, val |-> 0]

\* Answers to the Stability generation request (stability.py:117)
StabilityAnswers ==
  {NetTimeout, NetDown, Response(200, ImageBytes)}
  \cup {SeedResponse(h) : h \in SeedHeaders}
  \cup {Response(c, b) : c \in {400, 402, 500},
                         b \in {BodyMessage, BodyNoMessage, BodyHtml, BodyList}}

\* Answers to the BFL submit request (bfl.py:97)
SubmitAnswers ==
  {NetTimeout, NetDown, Response(200, BodyJob), Response(200, BodyEmpty),
   Response(402, BodyMessage), Response(429, BodyMessage)}
  \cup {Response(c, b) : c \in {400, 500},
                         b \in {BodyMessage, BodyNoMessage, BodyHtml, BodyList}}

\* Answers to one BFL status poll (bfl.py:132)
PollAnswers ==
  {NetTimeout, NetDown, Response(500, BodyHtml), Response(503, BodyPending)}
  \cup {Response(200, b) : b \in {BodyPending, BodyModerated, BodyError,
                                  BodyReadyLower, BodyReady,
                                  BodyReadyNoResult, BodyFailedNsfw,
                                  BodyFailedLikeTimeout, BodyFailedNoError,
                                  BodyEmpty}}

\* Answers to the download of the signed URL (bfl.py:147)
DownloadAnswers ==
  {NetTimeout, NetDown, Response(403, BodyHtml), Response(200, ImageBytes)}

\* response.raise_for_status(): httpx.HTTPStatusError unless 2xx
RaiseForStatus(r) ==
  IF r.status_code >= 200 /\ r.status_code < 300
    THEN NoExc
    ELSE Raise("HTTPStatusError",
               "Server error '" \o ToString(r.status_code) \o "' for url")

-----------------------------------------------------------------------------
(* utils/filename.py: the destination path *)

NoPath == [parent |-> "", name |-> ""]

\* str(path)
PathStr(path) == path.parent \o "/" \o path.name

\* f"{n:03d}"
Pad3(n) ==
  IF n < 10 THEN "00" \o ToString(n)
  ELSE IF n < 100 THEN "0" \o ToString(n)
  ELSE ToString(n)

\* name.rfind("."), counted from 1; 0 when there is none
LastDot(name) ==
  LET I == {i \in 1..Len(name) : SubSeq(name, i, i) = "."}
  IN  IF I = {} THEN 0 ELSE CHOOSE i \in I : \A j \in I : j <= i

\* PurePath.suffix: from the last dot, unless the dot leads or ends the name
PathSuffix(name) ==
  LET i == LastDot(name)
  IN  IF 1 < i /\ i < Len(name) THEN SubSeq(name, i, Len(name)) ELSE ""

\* PurePath.stem
PathStem(name) ==
  LET i == LastDot(name)
  IN  IF 1 < i /\ i < Len(name) THEN SubSeq(name, 1, i - 1) ELSE name

\* Mutant of Exists: a path another call holds counts as taken
ExistsOrReserved(fs, path) ==
  \/ PathStr(path) \in DOMAIN fs
  \/ \E q \in AllTasks : outPath[q] = path /\ pc[q] \notin {"idle", "returned"}

\* output_path.exists()
Exists(fs, path) == PathStr(path) \in DOMAIN fs

\* Mutant of ResolveConflict: the numbered name is not looked up again
ResolveConflictOnce(fs, parent, stem, suffix, k) ==
  [parent |-> parent, name |-> stem \o "_" \o Pad3(k) \o suffix]

\* The while loop of generate_filename (filename.py:141-145), entered with
\* conflict_counter = k.
RECURSIVE ResolveConflict(_, _, _, _, _)
ResolveConflict(fs, parent, stem, suffix, k) ==
  LET candidate == [parent |-> parent,
                    name |-> stem \o "_" \o Pad3(k) \o suffix]
  IN  IF Exists(fs, candidate)
        THEN ResolveConflict(fs, parent, stem, suffix, k + 1)
        ELSE candidate

-----------------------------------------------------------------------------
(* utils/filename.py: strings *)

\* s[i], counted from 1
Char(s, i) == SubSeq(s, i, i)

\* F(x), with x evaluated once, as a statement evaluates its right-hand side
\* before it assigns
Apply(F(_), x) == CHOOSE r \in {F(v) : v \in {x}} : TRUE

LowerLetters == "abcdefghijklmnopqrstuvwxyz"

UpperLetters == "ABCDEFGHIJKLMNOPQRSTUVWXYZ"

Digits == "0123456789"

\* c occurs in the string cs
CharIn(c, cs) == \E i \in 1..Len(cs) : Char(cs, i) = c

\* [a-z] (the pattern [a-zA-Z] on a lower-cased string)
IsLetter(c) == CharIn(c, LowerLetters)

\* \w of the regular expression, on the characters of the model
IsWordChar(c) ==
  CharIn(c, LowerLetters) \/ CharIn(c, UpperLetters) \/ CharIn(c, Digits)
  \/ c = "_"

\* str.lower() of one character
LowerChar(c) ==
  IF CharIn(c, UpperLetters)
    THEN LET i == CHOOSE k \in 1..Len(UpperLetters) : Char(UpperLetters, k) = c
         IN  Char(LowerLetters, i)
    ELSE c

\* The strings f[lo], ..., f[hi] in a row
RECURSIVE Concat(_, _, _)
Concat(f, lo, hi) ==
  IF lo > hi THEN ""
  ELSE IF lo = hi THEN f[lo]
  ELSE Apply(LAMBDA mid : Concat(f, lo, mid) \o Concat(f, mid + 1, hi),
             (lo + hi) \div 2)

\* str.lower()
Lower(s) == Concat([i \in 1..Len(s) |-> LowerChar(Char(s, i))], 1, Len(s))

\* The least member of a non-empty set of numbers
Least(I) == CHOOSE i \in I : \A j \in I : i <= j

\* s[n:]
DropFirst(s, n) == SubSeq(s, n + 1, Len(s))

\* s[:-n]
DropLast(s, n) == SubSeq(s, 1, Len(s) - n)

\* str.replace(old, new) for a non-empty old: every occurrence, left to right
RECURSIVE Replace(_, _, _)
Replace(s, old, new) ==
  LET I == {i \in 1..(Len(s) - Len(old) + 1) :
              SubSeq(s, i, i + Len(old) - 1) = old}
  IN  IF I = {} THEN s
      ELSE SubSeq(s, 1, Least(I) - 1) \o new
           \o Apply(LAMBDA rest : Replace(rest, old, new),
                    DropFirst(s, Least(I) + Len(old) - 1))

\* "_".join(words)
RECURSIVE Join(_)
Join(ws) ==
  IF Len(ws) = 0 THEN ""
  ELSE IF Len(ws) = 1 THEN ws[1]
  ELSE ws[1] \o "_" \o Join(Tail(ws))

\* seq[:n]
Take(seq, n) == SubSeq(seq, 1, IF Len(seq) < n THEN Len(seq) ELSE n)

\* [x for x in seq if x not in excluded]
RECURSIVE Without(_, _)
Without(seq, excluded) ==
  IF Len(seq) = 0 THEN <<>>
  ELSE IF Head(seq) \in excluded THEN Without(Tail(seq), excluded)
  ELSE <<Head(seq)>> \o Without(Tail(seq), excluded)

-----------------------------------------------------------------------------
(* utils/filename.py: extract_subject *)

\* filename.py:50
max_length == 50

prefixes_to_remove ==
  <<"a ", "an ", "the ", "create ", "generate ", "make ", "draw ", "paint ",
    "digital painting of ", "artwork of ", "image of ", "picture of ",
    "realistic ", "detailed ", "highly detailed ", "professional ",
    "masterpiece ", "award-winning ", "stunning ", "beautiful ">>

suffixes_to_remove ==
  <<" style", " art", " artwork", " painting", " image", " picture",
    " digital art", " concept art", " illustration", " render",
    " highly detailed", " professional", " masterpiece", " 4k", " 8k">>

common_words ==
  {"with", "and", "or", "but", "in", "on", "at", "to", "for", "of", "from",
   "up", "about", "into", "through", "during", "before", "after", "above",
   "below", "between", "among", "very", "really", "quite", "rather", "too"}

\* Mutant of RemovePrefix: no prefix is cut
RemovePrefixNone(s) == s

\* The first prefix of the list that s starts with is cut, then the loop
\* breaks.
RemovePrefix(s) ==
  LET I == {i \in 1..Len(prefixes_to_remove) :
              StartsWith(s, prefixes_to_remove[i])}
  IN  IF I = {} THEN s
      ELSE DropFirst(s, Len(prefixes_to_remove[CHOOSE i \in I :
                                                  \A j \in I : i <= j]))

\* The first suffix of the list that s ends with is cut, then the loop breaks.
RemoveSuffix(s) ==
  LET I == {i \in 1..Len(suffixes_to_remove) :
              EndsWith(s, suffixes_to_remove[i])}
  IN  IF I = {} THEN s
      ELSE DropLast(s, Len(suffixes_to_remove[CHOOSE i \in I :
                                                 \A j \in I : i <= j]))

\* The end of the run of \w characters that starts at i
RunEnd(s, i) ==
  Least({j \in i..Len(s) : j = Len(s) \/ ~IsWordChar(Char(s, j + 1))})

\* The match a run of \w characters gives: the run when it is made of
\* letters only, none otherwise
RunWord(run) ==
  IF \A k \in 1..Len(run) :
       IsLetter(Char(run, k)) \/ CharIn(Char(run, k), UpperLetters)
    THEN <<run>>
    ELSE <<>>

\* re.findall(r'\b[a-zA-Z]+\b', s) from character i on: between two word
\* boundaries lies a whole run of \w characters, so a match is a run made of
\* letters only; a run holding a digit or an underscore gives no word.
RECURSIVE FindWords(_, _)
FindWords(s, i) ==
  Apply(LAMBDA I :
          IF I = {} THEN <<>>
          ELSE Apply(LAMBDA j :
                       Apply(RunWord, SubSeq(s, Least(I), j))
                       \o FindWords(s, j + 1),
                     RunEnd(s, Least(I))),
        {k \in i..Len(s) : IsWordChar(Char(s, k))})

\* clean_prompt: the prompt in lower case, a prefix and a suffix cut
CleanPrompt(prompt) ==
  Apply(RemoveSuffix, Apply(RemovePrefix, Apply(Lower, prompt)))

\* words = re.findall(r'\b[a-zA-Z]+\b', clean_prompt)
WordsOf(clean_prompt) == FindWords(clean_prompt, 1)

\* meaningful_words[:4] if meaningful_words else words[:4]
SubjectWords(meaningful_words, words) ==
  IF Len(meaningful_words) > 0 THEN Take(meaningful_words, 4) ELSE Take(words, 4)

\* The subject of the words found: the common words filtered out, the
\* first four joined
JoinSubject(words) ==
  Apply(Join, Apply(LAMBDA meaningful_words :
                      SubjectWords(meaningful_words, words),
                    Without(words, common_words)))

\* if len(subject) > max_length: subject = subject[:max_length]
Truncate(subject) ==
  IF Len(subject) > max_length THEN SubSeq(subject, 1, max_length) ELSE subject

\* if not subject: subject = "image"
OrImage(subject) == IF subject = "" THEN "image" ELSE subject

\* Mutant of extract_subject: the fallback for an empty subject is missing
extract_subjectNoFallback(prompt) ==
  Apply(Truncate, Apply(JoinSubject, Apply(WordsOf, Apply(CleanPrompt, prompt))))

extract_subject(prompt) ==
  Apply(OrImage, Apply(Truncate, Apply(JoinSubject,
    Apply(WordsOf, Apply(CleanPrompt, prompt)))))

-----------------------------------------------------------------------------
(* utils/filename.py: apply_filename_template, generate_filename *)

\* The text of a prompt.  A prompt of the model is its head followed by
\* spaces up to its length (the long prompts of the length checks); the
\* trailing spaces are read as one: they hold no word and no suffix of
\* suffixes_to_remove ends in a space.
PromptText(pr) == IF pr.len > Len(pr.head) THEN pr.head \o " " ELSE pr.head

\* hashlib.md5(prompt.encode()).hexdigest()[:8], for the prompts of the model
generate_prompt_hash(pr) ==
  CASE pr = [head |-> "a red fox", len |-> 9] -> "9ea93006"
    [] pr = [head |-> "at the limit", len |-> 10000] -> "d9c516d6"
    [] pr = [head |-> "over the limit", len |-> 10001] -> "88076f22"
    [] pr = [head |->
               "A serene mountain landscape at sunset with a lake reflection",
             len |-> 60] -> "3b587992"

\* A match of r'\{\{[^}]*\}\}' starts at i: "{{" is there, and the first "}"
\* behind it begins "}}"
MarkerAt(s, i) ==
  /\ i < Len(s)
  /\ SubSeq(s, i, i + 1) = "{{"
  /\ LET K == {k \in (i + 2)..Len(s) : Char(s, k) = "}"}
     IN  K # {} /\ Least(K) < Len(s) /\ Char(s, Least(K) + 1) = "}"

\* re.sub(r'\{\{[^}]*\}\}', '', s): the first match is cut, scanning goes on
\* behind it
RECURSIVE StripMarkers(_)
StripMarkers(s) ==
  LET I == {i \in 1..Len(s) : MarkerAt(s, i)}
  IN  IF I = {} THEN s
      ELSE LET i == Least(I)
               k == Least({x \in (i + 2)..Len(s) : Char(s, x) = "}"})
           IN  SubSeq(s, 1, i - 1)
               \o Apply(StripMarkers, DropFirst(s, k + 1))

\* re.sub(r'[<>:"/\\|?*]', '_', s)
ReplaceInvalid(s) ==
  Concat([i \in 1..Len(s) |->
            IF CharIn(Char(s, i), "<>:\"/\\|?*") THEN "_" ELSE Char(s, i)],
         1, Len(s))

\* re.sub(r'_+', '_', s): of a run of underscores the first stays
CollapseUnderscores(s) ==
  Concat([i \in 1..Len(s) |->
            IF i > 1 /\ Char(s, i) = "_" /\ Char(s, i - 1) = "_"
              THEN "" ELSE Char(s, i)],
         1, Len(s))

\* s.strip('_')
StripUnderscores(s) ==
  LET I == {i \in 1..Len(s) : Char(s, i) # "_"}
  IN  IF I = {} THEN ""
      ELSE SubSeq(s, Least(I), CHOOSE i \in I : \A j \in I : j <= i)

\* if counter is not None: variables['Counter'] = f"{counter:03d}", replaced
\* as the last variable of the dict
ReplaceCounter(s, counter) ==
  IF counter.some THEN Replace(s, "{{.Counter}}", Pad3(counter.val)) ELSE s

\* model.replace('.', '').replace('-', '')
ModelVariable(m) ==
  Apply(LAMBDA s : Replace(s, "-", ""),
        Apply(LAMBDA s : Replace(s, ".", ""), m))

\* The loop over the variables, in the order of the dict: Timestamp, Date,
\* Time, Provider, Model, Subject, Hash, Counter; t is datetime.now() as its
\* strftime('%m%d%y') and strftime('%H%M%S')
ReplaceVariables(template, pr, provider, m, counter, t) ==
  Apply(LAMBDA s : ReplaceCounter(s, counter),
  Apply(LAMBDA s : Replace(s, "{{.Hash}}", generate_prompt_hash(pr)),
  Apply(LAMBDA s : Apply(LAMBDA subject : Replace(s, "{{.Subject}}", subject),
                         extract_subject(PromptText(pr))),
  Apply(LAMBDA s : Apply(LAMBDA name : Replace(s, "{{.Model}}", name),
                         ModelVariable(m)),
  Apply(LAMBDA s : Apply(LAMBDA name : Replace(s, "{{.Provider}}", name),
                         Lower(provider)),
  Apply(LAMBDA s : Replace(s, "{{.Time}}", t.time),
  Apply(LAMBDA s : Replace(s, "{{.Date}}", t.date),
  Apply(LAMBDA s : Replace(s, "{{.Timestamp}}", t.date \o "." \o t.time),
        template))))))))

\* apply_filename_template; counter is an Optional[int]
apply_filename_template(template, pr, provider, m, counter, t) ==
  Apply(StripUnderscores, Apply(CollapseUnderscores, Apply(ReplaceInvalid,
    Apply(StripMarkers,
          ReplaceVariables(template, pr, provider, m, counter, t)))))

\* if not base_filename.endswith(f'.{extension}'): the extension is added
AddExtension(rendered, extension) ==
  IF EndsWith(rendered, "." \o extension)
    THEN rendered
    ELSE rendered \o "." \o extension

\* filename.py:134-147: the path in output_dir, numbered when it exists
ResolvePath(fs, output_dir, base_filename) ==
  IF Exists(fs, [parent |-> output_dir, name |-> base_filename])
    THEN ResolveConflict(fs, output_dir, PathStem(base_filename),
                         PathSuffix(base_filename), 1)
    ELSE [parent |-> output_dir, name |-> base_filename]

\* generate_filename; fs is the file system it looks at
generate_filename(template, pr, provider, m, dir, ext, counter, fs, t) ==
  Apply(LAMBDA base_filename : ResolvePath(fs, dir, base_filename),
        Apply(LAMBDA rendered : AddExtension(rendered, ext),
              apply_filename_template(template, pr, provider, m, counter, t)))

-----------------------------------------------------------------------------
(* The arguments of a tool call *)

\* A prompt is its length and its first characters (prompt[:100]).
PromptShort == [head |-> "a red fox", len |-> 9]

PromptAtLimit == [head |-> "at the limit", len |-> MaxPromptLen]

PromptTooLong == [head |-> "over the limit", len |-> MaxPromptLen + 1]

Prompts == {PromptShort, PromptAtLimit, PromptTooLong}

NegativePrompts == {None, Some(PromptShort), Some(PromptTooLong)}

Providers == {"stability", "bfl", "dalle"}

\* bool(negative_prompt)
TruthyPrompt(o) == o.some /\ o.val.len > 0

\* A JSON number: its value in tenths, and whether Python holds it as a
\* float (7.0) or as an int (7)
Float(tenths) == [t |-> tenths, float |-> TRUE]

Whole(n) == [t |-> n * 10, float |-> FALSE]

\* cfg_scale: float = 7.0
DefaultCfgScale == Float(70)

\* The clock readings of the model
Clock == {[date |-> "110326", time |-> "101500"]}

\* filename_template: str = "{{.Timestamp}}-{{.Subject}}"
DefaultTemplate == "{{.Timestamp}}-{{.Subject}}"

\* The tool calls of the model.  A call varies the prompt or the negative
\* prompt, not both.
Requests ==
  { r \in [prompt : Prompts, negative_prompt : NegativePrompts,
           provider : Providers, model : {None}, aspect_ratio : {"1:1"},
           cfg_scale : {DefaultCfgScale}, seed : {None},
           output_dir : {"images"}, filename_template : {DefaultTemplate}] :
      r.prompt = PromptShort \/ r.negative_prompt = None }

NoRequest ==
  [prompt |-> PromptShort, negative_prompt |-> None, provider |-> "",
   model |-> None, aspect_ratio |-> "", cfg_scale |-> DefaultCfgScale,
   seed |-> None, output_dir |-> "", filename_template |-> ""]

\* The environments: each credential unset, empty, or set
Environments ==
  { [STABILITY_API_KEY |-> Some("sk-stab"), BFL_API_KEY |-> Some("bfl_key")],
    [STABILITY_API_KEY |-> None,            BFL_API_KEY |-> Some("bfl_key")],
    [STABILITY_API_KEY |-> Some("sk-stab"), BFL_API_KEY |-> Some("")] }

-----------------------------------------------------------------------------
(* providers/stability.py and providers/bfl.py: the pure parts *)

StabilityModels ==
  {"sd3-large", "sd3-large-turbo", "sd3-medium",
   "sd3.5-large", "sd3.5-large-turbo", "sd3.5-medium"}

BFLModels == {"flux-pro-1.1-ultra", "flux-pro-1.1", "flux-pro", "flux-dev"}

StabilityValidateModel(m) == IF m \in StabilityModels THEN m ELSE "sd3.5-large"

BFLValidateModel(m) == IF m \in BFLModels THEN m ELSE "flux-pro-1.1"

\* class AspectRatio
AspectRatios ==
  {"16:9", "1:1", "21:9", "2:3", "3:2", "4:5", "5:4", "9:16", "9:21"}

\* Mutant of StabilityValidateAspectRatio: the ratio is passed on as it came
StabilityValidateAspectRatioNone(a) == a

\* StabilityClient._validate_aspect_ratio
StabilityValidateAspectRatio(a) == IF a \in AspectRatios THEN a ELSE "1:1"

\* Mutant of ConvertAspectRatioToDimensions: width and height of the wide
\* and the tall entries changed places
ConvertAspectRatioToDimensionsSwapped(a) ==
  CASE a = "16:9" -> <<768, 1344>>
    [] a = "1:1"  -> <<1024, 1024>>
    [] a = "21:9" -> <<640, 1536>>
    [] a = "2:3"  -> <<1216, 832>>
    [] a = "3:2"  -> <<832, 1216>>
    [] a = "4:5"  -> <<1152, 896>>
    [] a = "5:4"  -> <<896, 1152>>
    [] a = "9:16" -> <<1344, 768>>
    [] a = "9:21" -> <<1536, 640>>
    [] OTHER      -> <<1024, 1024>>

\* BFLClient._convert_aspect_ratio_to_dimensions: aspect_map.get(a, (1024, 1024))
ConvertAspectRatioToDimensions(a) ==
  CASE a = "16:9" -> <<1344, 768>>
    [] a = "1:1"  -> <<1024, 1024>>
    [] a = "21:9" -> <<1536, 640>>
    [] a = "2:3"  -> <<832, 1216>>
    [] a = "3:2"  -> <<1216, 832>>
    [] a = "4:5"  -> <<896, 1152>>
    [] a = "5:4"  -> <<1152, 896>>
    [] a = "9:16" -> <<768, 1344>>
    [] a = "9:21" -> <<640, 1536>>
    [] OTHER      -> <<1024, 1024>>

\* min(a, b) and max(a, b) of Python: of two equal numbers the first
PyMin(a, b) == IF b.t < a.t THEN b ELSE a

PyMax(a, b) == IF b.t > a.t THEN b ELSE a

\* Mutant of ClampCfgScale: the lower end is not enforced
ClampCfgScaleUpperOnly(c) == PyMin(Float(100), c)

\* max(1.0, min(10.0, cfg_scale))
ClampCfgScale(c) == PyMax(Float(10), PyMin(Float(100), c))

\* str(x) of a float held in tenths
FloatStr(t) ==
  IF t < 0 THEN "-" \o ToString((-t) \div 10) \o "." \o ToString((-t) % 10)
  ELSE ToString(t \div 10) \o "." \o ToString(t % 10)

\* str(x) of a number
NumStr(x) == IF x.float THEN FloatStr(x.t) ELSE ToString(x.t \div 10)

\* negative_prompt after "Don't use negative prompt with turbo models"
StabilityNegativePrompt(r, m) ==
  IF TruthyPrompt(r.negative_prompt)
     /\ m \in {"sd3-large-turbo", "sd3.5-large-turbo"}
    THEN None
    ELSE r.negative_prompt

NoSent == [route |-> "", body |-> <<>>]

\* The generation request of Stability: the route and form_data; m is the
\* model the tool passes
StabilityRequest(r, m) ==
  LET neg == StabilityNegativePrompt(r, StabilityValidateModel(m))
  IN  [route |-> "/v2beta/stable-image/generate/sd3",
       body |-> [prompt |-> r.prompt,
                 output_format |-> "png",
                 cfg_scale |-> NumStr(ClampCfgScale(r.cfg_scale)),
                 aspect_ratio |-> StabilityValidateAspectRatio(r.aspect_ratio)]
                @@ (IF r.seed.some THEN [seed |-> ToString(r.seed.val)]
                    ELSE <<>>)
                @@ (IF TruthyPrompt(neg) THEN [negative_prompt |-> neg.val]
                    ELSE <<>>)]

\* The "parameters" of the dict StabilityClient.generate_image returns
StabilityParameters(r, m) ==
  [prompt |-> r.prompt,
   negative_prompt |-> StabilityNegativePrompt(r, StabilityValidateModel(m)),
   model |-> StabilityValidateModel(m),
   aspect_ratio |-> StabilityValidateAspectRatio(r.aspect_ratio),
   cfg_scale |-> ClampCfgScale(r.cfg_scale),
   seed |-> r.seed,
   output_format |-> "png"]

\* stability.py:133 and 158-164: actual_seed, added to the parameters when
\* the Seed header is there, is not empty and is read by int()
StabilityActualSeed(a) ==
  IF Truthy(HeaderGet(a, "Seed")) /\ ParseInt(HeaderGet(a, "Seed").val).ok
    THEN [actual_seed |-> ParseInt(HeaderGet(a, "Seed").val).val]
    ELSE <<>>

\* Mutant of BFLRequest: a seed the caller gave is passed on
BFLRequestWithSeed(r, m) ==
  [route |-> "/" \o BFLValidateModel(m),
   body |-> [prompt |-> r.prompt,
             width |-> ConvertAspectRatioToDimensions(r.aspect_ratio)[1],
             height |-> ConvertAspectRatioToDimensions(r.aspect_ratio)[2]]
            @@ (IF r.seed.some THEN [seed |-> r.seed.val] ELSE <<>>)]

\* The submit request of BFL: the route and the json
BFLRequest(r, m) ==
  [route |-> "/" \o BFLValidateModel(m),
   body |-> [prompt |-> r.prompt,
             width |-> ConvertAspectRatioToDimensions(r.aspect_ratio)[1],
             height |-> ConvertAspectRatioToDimensions(r.aspect_ratio)[2]]]

\* The "parameters" of the dict BFLClient.generate_image returns
BFLParameters(r, m) ==
  [prompt |-> r.prompt,
   model |-> BFLValidateModel(m),
   width |-> ConvertAspectRatioToDimensions(r.aspect_ratio)[1],
   height |-> ConvertAspectRatioToDimensions(r.aspect_ratio)[2],
   aspect_ratio |-> r.aspect_ratio,
   output_format |-> "png"]

\* The length checks of StabilityClient.generate_image, made before its try
StabilityValidate(r) ==
  IF r.prompt.len > MaxPromptLen
    THEN Raise("ValueError", "Prompt must be 10000 characters or less")
  ELSE IF TruthyPrompt(r.negative_prompt)
          /\ r.negative_prompt.val.len > MaxPromptLen
    THEN Raise("ValueError", "Negative prompt must be 10000 characters or less")
  ELSE NoExc

\* What BFLClient.generate_image checks of its arguments before the submit
\* request: nothing that raises.
BFLValidate(r) == NoExc

\* The error of a status other than 200: the try parses the body and raises
\* the RuntimeError with the upstream message inside the try; its own
\* "except Exception" catches that RuntimeError, as it catches a failed parse.
ApiError(prefix, a) ==
  LET j == ParseJson(a.text)
      inner ==
        IF ~j.ok THEN Raise("JSONDecodeError", "Expecting value")
        ELSE IF j.kind # "object"
          THEN Raise("AttributeError", "'list' object has no attribute 'get'")
        ELSE Raise("RuntimeError",
                   prefix \o Get(j.val, "message",
                                 "HTTP " \o ToString(a.status_code)))
  IN  IF IsInstance(inner, "Exception")
        THEN Raise("RuntimeError",
                   prefix \o ToString(a.status_code) \o " - " \o a.text)
        ELSE inner

\* The except clauses that end StabilityClient.generate_image's try
StabilityCatch(e) ==
  IF IsInstance(e, "TimeoutException")
    THEN Raise("RuntimeError",
               "Request timed out - image generation took too long")
  ELSE IF IsInstance(e, "HTTPError")
    THEN Raise("RuntimeError", "HTTP error: " \o e.msg)
  ELSE IF IsInstance(e, "Exception")
    THEN Raise("RuntimeError", "Failed to generate image: " \o e.msg)
  ELSE e

\* The except clauses that end BFLClient.generate_image's try
BFLCatch(e) ==
  IF IsInstance(e, "TimeoutException")
    THEN Raise("RuntimeError",
               "Request timed out - BFL API took too long to respond")
  ELSE IF IsInstance(e, "HTTPError")
    THEN Raise("RuntimeError", "HTTP error: " \o e.msg)
  ELSE IF IsInstance(e, "Exception")
    THEN Raise("RuntimeError", "Failed to generate image: " \o e.msg)
  ELSE e

\* What the generation request of Stability raises, NoExc when it is a 200
StabilityPostError(a) ==
  IF a.kind = "raise" THEN a.exc
  ELSE IF a.status_code # 200 THEN ApiError("Stability AI API Error: ", a)
  ELSE NoExc

\* Mutant of SubmitError: an answer without a job id goes unnoticed
SubmitErrorNoId(a) ==
  IF a.kind = "raise" THEN a.exc
  ELSE IF a.status_code = 402 THEN Raise("RuntimeError", "Insufficient BFL credits")
  ELSE IF a.status_code = 429 THEN Raise("RuntimeError", "Too many active BFL tasks")
  ELSE IF a.status_code # 200 THEN ApiError("BFL API Error: ", a)
  ELSE NoExc

\* What the submit request of BFL raises, up to request_data["id"]
SubmitError(a) ==
  IF a.kind = "raise" THEN a.exc
  ELSE IF a.status_code = 402 THEN Raise("RuntimeError", "Insufficient BFL credits")
  ELSE IF a.status_code = 429 THEN Raise("RuntimeError", "Too many active BFL tasks")
  ELSE IF a.status_code # 200 THEN ApiError("BFL API Error: ", a)
  ELSE IF ~ParseJson(a.text).ok THEN Raise("JSONDecodeError", "Expecting value")
  ELSE IF "id" \notin DOMAIN ParseJson(a.text).val THEN Raise("KeyError", "'id'")
  ELSE NoExc

\* Mutant of LoopContinues: while True
LoopContinuesForever(a) == TRUE

\* Mutant of LoopContinues: the loop test off by one
LoopContinuesInclusive(a) == a <= max_attempts

\* while attempt < max_attempts
LoopContinues(a) == a < max_attempts

\* Mutant of JobFailedError: the backend's error text is dropped
JobFailedErrorGeneric(data) ==
  Raise("RuntimeError", "BFL generation failed: Unknown error")

\* status == "Failed"
JobFailedError(data) ==
  Raise("RuntimeError",
        "BFL generation failed: " \o Get(data, "error", "Unknown error"))

\* Mutant of PollTimeoutError: the exhausted budget reported as a failed job
PollTimeoutAsFailure ==
  Raise("RuntimeError", "BFL generation failed: Unknown error")

\* after the loop
PollTimeoutError ==
  Raise("RuntimeError",
        "BFL generation timed out after " \o ToString(max_attempts) \o " seconds")

\* Mutant of StatusBranch: statuses that read like an error end the loop as
\* a failed job
StatusBranchErrorLike(status) ==
  CASE status = "Ready" -> "ready"
    [] status \in {"Failed", "Error", "Request Moderated"} -> "failed"
    [] OTHER -> "continue"

\* Mutant of StatusBranch: the elif for "Failed" is missing
StatusBranchReadyOnly(status) ==
  IF status = "Ready" THEN "ready" ELSE "continue"

\* if status == "Ready": ... elif status == "Failed": ... -- any other
\* status goes round the loop
StatusBranch(status) ==
  CASE status = "Ready"  -> "ready"
    [] status = "Failed" -> "failed"
    [] OTHER             -> "continue"

\* Mutant of PollError: result_response.raise_for_status() is missing
PollErrorNoRaiseForStatus(a) ==
  IF a.kind = "raise" THEN a.exc
  ELSE IF ~ParseJson(a.text).ok THEN Raise("JSONDecodeError", "Expecting value")
  ELSE IF "status" \notin DOMAIN ParseJson(a.text).val
    THEN Raise("KeyError", "'status'")
  ELSE IF ParseJson(a.text).val.status = "Ready"
          /\ "result" \notin DOMAIN ParseJson(a.text).val
    THEN Raise("KeyError", "'result'")
  ELSE NoExc

\* What a status poll raises before the status is looked at
PollError(a) ==
  IF a.kind = "raise" THEN a.exc
  ELSE IF RaiseForStatus(a) # NoExc THEN RaiseForStatus(a)
  ELSE IF ~ParseJson(a.text).ok THEN Raise("JSONDecodeError", "Expecting value")
  ELSE IF "status" \notin DOMAIN ParseJson(a.text).val
    THEN Raise("KeyError", "'status'")
  ELSE IF ParseJson(a.text).val.status = "Ready"
          /\ "result" \notin DOMAIN ParseJson(a.text).val
    THEN Raise("KeyError", "'result'")
  ELSE NoExc

\* What the download raises
DownloadError(a) == IF a.kind = "raise" THEN a.exc ELSE RaiseForStatus(a)

\* with open(output_path, "wb") as f: f.write(bytes) -- what the file system
\* can make of it: the open fails (no file), the write fails after the open
\* created or truncated the file (it stays empty, or holds a first part), or
\* all bytes are written.
WriteOutcomes == {"ok", "open_fails", "write_fails_empty", "write_fails_partial"}

\* Mutant of WriteError: a write that stops short goes unnoticed
WriteErrorOpenOnly(w) ==
  IF w = "open_fails"
    THEN Raise("OSError", "[Errno 13] Permission denied")
    ELSE NoExc

WriteError(w) ==
  CASE w = "ok" -> NoExc
    [] w = "open_fails" ->
         Raise("OSError", "[Errno 13] Permission denied")
    [] OTHER -> Raise("OSError", "[Errno 28] No space left on device")

Put(fs, key, data) ==
  [k \in DOMAIN fs \cup {key} |-> IF k = key THEN data ELSE fs[k]]

FilesAfterWrite(fs, path, data, w) ==
  CASE w = "ok" -> Put(fs, PathStr(path), data)
    [] w = "open_fails" -> fs
    [] w = "write_fails_empty" -> Put(fs, PathStr(path), "")
    [] w = "write_fails_partial" ->
         Put(fs, PathStr(path), SubSeq(data, 1, Len(data) \div 2))

-----------------------------------------------------------------------------
(* server.py: the texts of generate_image_tool *)

TextContent(text) == [type |-> "text", text |-> text]

\* Mutant of KeyMissing: "api_key is None" in place of "not api_key"
KeyMissingNoneOnly(k) == ~k.some

\* not api_key
KeyMissing(k) == ~Truthy(k)

\* server.py:119-133: the ValueError of an unsupported provider or of a
\* missing credential, NoExc when the provider is resolved
ResolveError(provider, environ) ==
  IF provider \notin {"stability", "bfl"}
    THEN Raise("ValueError", "Unsupported provider: " \o provider
                             \o ". Use 'stability' or 'bfl'")
  ELSE IF provider = "stability"
    THEN IF KeyMissing(environ.STABILITY_API_KEY)
           THEN Raise("ValueError",
                      "STABILITY_API_KEY environment variable not set")
           ELSE NoExc
  ELSE IF KeyMissing(environ.BFL_API_KEY)
    THEN Raise("ValueError", "BFL_API_KEY environment variable not set")
  ELSE NoExc

DefaultModel(provider) ==
  IF provider = "stability" THEN "sd3.5-large" ELSE "flux-pro-1.1"

\* str.title() of the two provider names
Title(provider) == IF provider = "stability" THEN "Stability" ELSE "Bfl"

\* f"{n / (1024 * 1024):.1f}"
SizeMB(n) ==
  LET tenths == (n * 10 + 524288) \div 1048576
  IN  ToString(tenths \div 10) \o "." \o ToString(tenths % 10)

FailureHeader == "**Image Generation Failed**\n\n**Error:** "

\* server.py:220
FailureText(r, m, e) ==
  FailureHeader \o e.msg
  \o "\n\n**Parameters:**\n- Provider: " \o r.provider
  \o "\n- Model: " \o StrOpt(m)
  \o "\n- Prompt: " \o r.prompt.head \o "..."

SuccessHeader == "**Image Generated Successfully!**"

\* result["parameters"].get("actual_seed", seed or "random")
SeedShown(res, seed) ==
  IF "actual_seed" \in DOMAIN res.parameters
    THEN ToString(res.parameters.actual_seed)
  ELSE IF seed.some /\ seed.val # 0 THEN ToString(seed.val)
  ELSE "random"

\* server.py:184-215 (the emoji and the markdown code quotes are left out)
SuccessText(r, path, res) ==
  SuccessHeader
  \o "\n\n**File Details:**\n- **Saved to:** " \o path.name
  \o "\n- **Full path:** " \o PathStr(path)
  \o "\n- **File size:** " \o SizeMB(res.image_size) \o " MB"
  \o "\n\n**Generation Parameters:**\n- **Provider:** " \o Title(r.provider)
  \o "\n- **Model:** " \o res.model
  \o "\n- **Prompt:** " \o r.prompt.head
  \o (IF TruthyPrompt(r.negative_prompt) /\ r.provider = "stability"
        THEN "\n- **Negative prompt:** " \o r.negative_prompt.val.head
        ELSE "")
  \o "\n- **Aspect ratio:** " \o r.aspect_ratio
  \o "\n- **Seed:** " \o SeedShown(res, r.seed)
  \o (IF r.provider = "stability"
        THEN "\n- **CFG scale:** " \o NumStr(r.cfg_scale)
        ELSE "")
  \o "\n\n**Template Applied:** " \o r.filename_template
  \o "\n\nThe image has been saved and is ready for use!"
  \o "\n\n**Tip:** Use open_file(path=\"" \o PathStr(path)
  \o "\") to view the image or reveal_file(path=\"" \o PathStr(path)
  \o "\") to show it in your file manager."

\* Mutant of ToolCatches: "except RuntimeError" in place of "except Exception"
ToolCatchesRuntimeError(e) == IsInstance(e, "RuntimeError")

\* except Exception as e (server.py:219)
ToolCatches(e) == IsInstance(e, "Exception")

\* Mutant of AfterGenerate: the close after the call, not in a finally
AfterGenerateNoFinally(raised) == IF raised THEN "respond" ELSE "close"

\* try: result = await client.generate_image(...) finally: await client.close()
\* -- where the tool goes when generate_image is left, by return or by raise
AfterGenerate(raised) == "close"

-----------------------------------------------------------------------------
(* The state machine *)

NoResult ==
  [success |-> FALSE, model |-> "", image_size |-> 0, parameters |-> <<>>]

\* What a call has done: clients constructed and closed, requests sent
\* (post: Stability's generation request; submit, poll, download: BFL's),
\* sleeps of the polling loop begun, polls answered by a status other than
\* Ready and Failed, mkdir calls, files opened for writing, and how the write
\* ended.
NoEffects ==
  [clients |-> 0, closes |-> 0, post |-> 0, submit |-> 0, sleep |-> 0,
   poll |-> 0, pending |-> 0, download |-> 0, mkdir |-> 0, open |-> 0,
   write |-> "none"]

NoReply == [kind |-> "none", status_code |-> 0, text |-> "", exc |-> NoExc]

\* Every outbound network call of a task
NetCalls(p) == eff[p].post + eff[p].submit + eff[p].poll + eff[p].download

Init ==
  /\ env \in Environments
  /\ now \in Clock
  /\ files = <<>>
  /\ dirs = {}
  /\ nreq = 0
  /\ tasks = {1}
  /\ pc = [p \in AllTasks |-> "idle"]
  /\ req = [p \in AllTasks |-> NoRequest]
  /\ outPath = [p \in AllTasks |-> NoPath]
  /\ model = [p \in AllTasks |-> None]
  /\ client = [p \in AllTasks |-> "none"]
  /\ dlClient = [p \in AllTasks |-> "none"]
  /\ attempt = [p \in AllTasks |-> 0]
  /\ sent = [p \in AllTasks |-> NoSent]
  /\ reply = [p \in AllTasks |-> NoReply]
  /\ pollData = [p \in AllTasks |-> <<>>]
  /\ pollReply = [p \in AllTasks |-> NoReply]
  /\ content = [p \in AllTasks |-> ""]
  /\ exc = [p \in AllTasks |-> NoExc]
  /\ result = [p \in AllTasks |-> NoResult]
  /\ response = [p \in AllTasks |-> <<>>]
  /\ propagated = [p \in AllTasks |-> FALSE]
  /\ eff = [p \in AllTasks |-> NoEffects]

\* call_tool("generate_image", arguments): generate_image_tool is entered
Call(p) ==
  /\ p \in tasks
  /\ pc[p] \in {"idle", "returned"}
  /\ nreq < MaxRequests
  /\ \E r \in Requests :
       /\ req' = [req EXCEPT ![p] = r]
       /\ model' = [model EXCEPT ![p] = r.model]
  /\ nreq' = nreq + 1
  /\ pc' = [pc EXCEPT ![p] = "resolve"]
  /\ outPath' = [outPath EXCEPT ![p] = NoPath]
  /\ client' = [client EXCEPT ![p] = "none"]
  /\ dlClient' = [dlClient EXCEPT ![p] = "none"]
  /\ attempt' = [attempt EXCEPT ![p] = 0]
  /\ sent' = [sent EXCEPT ![p] = NoSent]
  /\ reply' = [reply EXCEPT ![p] = NoReply]
  /\ pollData' = [pollData EXCEPT ![p] = <<>>]
  /\ pollReply' = [pollReply EXCEPT ![p] = NoReply]
  /\ content' = [content EXCEPT ![p] = ""]
  /\ exc' = [exc EXCEPT ![p] = NoExc]
  /\ result' = [result EXCEPT ![p] = NoResult]
  /\ response' = [response EXCEPT ![p] = <<>>]
  /\ propagated' = [propagated EXCEPT ![p] = FALSE]
  /\ eff' = [eff EXCEPT ![p] = NoEffects]
  /\ UNCHANGED <<env, now, files, dirs, tasks>>

\* server.py:118-137: the provider, its credential, the default model
ResolveProvider(p) ==
  /\ pc[p] = "resolve"
  /\ LET e == ResolveError(req[p].provider, env)
     IN  IF e # NoExc
           THEN /\ exc' = [exc EXCEPT ![p] = e]
                /\ pc' = [pc EXCEPT ![p] = "respond"]
                /\ model' = model
           ELSE /\ exc' = exc
                /\ pc' = [pc EXCEPT ![p] = "filename"]
                /\ model' = [model EXCEPT ![p] =
                               IF Truthy(model[p]) THEN model[p]
                               ELSE Some(DefaultModel(req[p].provider))]
  /\ UNCHANGED <<env, now, sent, files, dirs, nreq, tasks, req, outPath, client, dlClient,
                 attempt, reply, pollData, pollReply, content, result, response,
                 propagated, eff>>

\* server.py:139-147: output_path = generate_filename(...)
ComputePath(p) ==
  /\ pc[p] = "filename"
  /\ outPath' = [outPath EXCEPT ![p] =
                   generate_filename(req[p].filename_template, req[p].prompt,
                                     req[p].provider, model[p].val,
                                     req[p].output_dir, "png", None, files,
                                     now)]
  /\ pc' = [pc EXCEPT ![p] = "mkdir"]
  /\ UNCHANGED <<env, now, sent, files, dirs, nreq, tasks, req, model, client, dlClient,
                 attempt, reply, pollData, pollReply, content, exc, result, response,
                 propagated, eff>>

\* server.py:150: output_path.parent.mkdir(parents=True, exist_ok=True); it
\* can fail (OSError) only when the directory is not there yet
CreateOutputDir(p) ==
  /\ pc[p] = "mkdir"
  /\ \E ok \in BOOLEAN :
       /\ ok \/ outPath[p].parent \notin dirs
       /\ IF ok
            THEN /\ dirs' = dirs \cup {outPath[p].parent}
                 /\ eff' = [eff EXCEPT ![p].mkdir = @ + 1]
                 /\ pc' = [pc EXCEPT ![p] = "client"]
                 /\ exc' = exc
            ELSE /\ dirs' = dirs
                 /\ eff' = eff
                 /\ pc' = [pc EXCEPT ![p] = "respond"]
                 /\ exc' = [exc EXCEPT ![p] =
                              Raise("OSError", "[Errno 13] Permission denied")]
  /\ UNCHANGED <<env, now, sent, files, nreq, tasks, req, outPath, model, client,
                 dlClient, attempt, reply, pollData, pollReply, content, result, response,
                 propagated>>

\* server.py:153-164 and stability.py:79-121: the client is constructed,
\* generate_image validates and sends the generation request
StabilityStart(p) ==
  /\ pc[p] = "client"
  /\ req[p].provider = "stability"
  /\ client' = [client EXCEPT ![p] = "open"]
  /\ LET e == StabilityValidate(req[p])
     IN  IF e # NoExc
           THEN /\ exc' = [exc EXCEPT ![p] = e]
                /\ pc' = [pc EXCEPT ![p] = AfterGenerate(TRUE)]
                /\ eff' = [eff EXCEPT ![p].clients = @ + 1]
                /\ sent' = sent
           ELSE /\ exc' = exc
                /\ pc' = [pc EXCEPT ![p] = "stab_post"]
                /\ eff' = [eff EXCEPT ![p].clients = @ + 1, ![p].post = @ + 1]
                /\ sent' = [sent EXCEPT ![p] =
                              StabilityRequest(req[p], model[p].val)]
  /\ UNCHANGED <<env, now, files, dirs, nreq, tasks, req, outPath, model, dlClient,
                 attempt, reply, pollData, pollReply, content, result, response, propagated>>

\* stability.py:117-133: the generation request returns or raises
StabilityResponse(p) ==
  /\ pc[p] = "stab_post"
  /\ \E a \in StabilityAnswers :
       /\ LET e == StabilityPostError(a)
          IN  IF e # NoExc
                THEN /\ exc' = [exc EXCEPT ![p] = StabilityCatch(e)]
                     /\ pc' = [pc EXCEPT ![p] = AfterGenerate(TRUE)]
                     /\ content' = content
                ELSE /\ exc' = exc
                     /\ pc' = [pc EXCEPT ![p] = "stab_save"]
                     /\ content' = [content EXCEPT ![p] = a.text]
       /\ reply' = [reply EXCEPT ![p] = a]
  /\ UNCHANGED <<env, now, sent, files, dirs, nreq, tasks, req, outPath, model, client,
                 dlClient, attempt, pollData, pollReply, result, response, propagated,
                 eff>>

\* The saving of the image by either client (stability.py:136-140,
\* bfl.py:151-155) and the result dict it then returns; catch is the
\* client's except clauses.
SaveImage(p, w, caught) ==
  /\ dirs' = dirs \cup {outPath[p].parent}
  /\ files' = FilesAfterWrite(files, outPath[p], content[p], w)
  /\ eff' = [eff EXCEPT ![p].mkdir = @ + 1,
                        ![p].open = IF w = "open_fails" THEN @ ELSE @ + 1,
                        ![p].write = w]
  /\ pc' = [pc EXCEPT ![p] = AfterGenerate(WriteError(w) # NoExc)]
  /\ IF WriteError(w) # NoExc
       THEN /\ exc' = [exc EXCEPT ![p] = caught]
            /\ result' = result
       ELSE /\ exc' = exc
            /\ result' = [result EXCEPT ![p] =
                 [success |-> TRUE,
                  model |-> IF req[p].provider = "stability"
                              THEN StabilityValidateModel(model[p].val)
                              ELSE BFLValidateModel(model[p].val),
                  image_size |-> Len(content[p]),
                  parameters |-> IF req[p].provider = "stability"
                                   THEN StabilityParameters(req[p], model[p].val)
                                        @@ StabilityActualSeed(reply[p])
                                   ELSE BFLParameters(req[p], model[p].val)]]

\* stability.py:135-166
StabilitySave(p) ==
  /\ pc[p] = "stab_save"
  /\ \E w \in WriteOutcomes : SaveImage(p, w, StabilityCatch(WriteError(w)))
  /\ UNCHANGED <<env, now, sent, nreq, tasks, req, outPath, model, client, dlClient,
                 attempt, reply, pollData, pollReply, content, response, propagated>>

\* server.py:168-179 and bfl.py:78-104: the client is constructed,
\* generate_image sends the submit request
BFLStart(p) ==
  /\ pc[p] = "client"
  /\ req[p].provider = "bfl"
  /\ client' = [client EXCEPT ![p] = "open"]
  /\ LET e == BFLValidate(req[p])
     IN  IF e # NoExc
           THEN /\ exc' = [exc EXCEPT ![p] = e]
                /\ pc' = [pc EXCEPT ![p] = AfterGenerate(TRUE)]
                /\ eff' = [eff EXCEPT ![p].clients = @ + 1]
                /\ sent' = sent
           ELSE /\ exc' = exc
                /\ pc' = [pc EXCEPT ![p] = "bfl_submit"]
                /\ eff' = [eff EXCEPT ![p].clients = @ + 1,
                                      ![p].submit = @ + 1]
                /\ sent' = [sent EXCEPT ![p] = BFLRequest(req[p], model[p].val)]
  /\ UNCHANGED <<env, now, files, dirs, nreq, tasks, req, outPath, model, dlClient,
                 attempt, reply, pollData, pollReply, content, result, response, propagated>>

\* bfl.py:97-126: the submit request returns or raises; attempt = 0
BFLSubmitResponse(p) ==
  /\ pc[p] = "bfl_submit"
  /\ \E a \in SubmitAnswers :
       /\ LET e == SubmitError(a)
          IN  IF e # NoExc
                THEN /\ exc' = [exc EXCEPT ![p] = BFLCatch(e)]
                     /\ pc' = [pc EXCEPT ![p] = AfterGenerate(TRUE)]
                ELSE /\ exc' = exc
                     /\ pc' = [pc EXCEPT ![p] = "bfl_loop"]
       /\ reply' = [reply EXCEPT ![p] = a]
  /\ attempt' = [attempt EXCEPT ![p] = 0]
  /\ UNCHANGED <<env, now, sent, files, dirs, nreq, tasks, req, outPath, model, client,
                 dlClient, pollData, pollReply, content, result, response, propagated,
                 eff>>

\* bfl.py:128-129 and 179: the loop test; then the sleep of one second
\* begins, or the timeout error after the loop is raised
BFLLoop(p) ==
  /\ pc[p] = "bfl_loop"
  /\ IF LoopContinues(attempt[p])
       THEN /\ eff' = [eff EXCEPT ![p].sleep = @ + 1]
            /\ pc' = [pc EXCEPT ![p] = "bfl_sleep"]
            /\ exc' = exc
       ELSE /\ eff' = eff
            /\ pc' = [pc EXCEPT ![p] = AfterGenerate(TRUE)]
            /\ exc' = [exc EXCEPT ![p] = BFLCatch(PollTimeoutError)]
  /\ UNCHANGED <<env, now, sent, files, dirs, nreq, tasks, req, outPath, model, client,
                 dlClient, attempt, reply, pollData, pollReply, content, result,
                 response, propagated>>

\* bfl.py:129-135: the sleep is over; attempt += 1 and the status request is
\* sent
BFLPoll(p) ==
  /\ pc[p] = "bfl_sleep"
  /\ attempt' = [attempt EXCEPT ![p] = @ + 1]
  /\ eff' = [eff EXCEPT ![p].poll = @ + 1]
  /\ pc' = [pc EXCEPT ![p] = "bfl_poll"]
  /\ UNCHANGED <<env, now, sent, files, dirs, nreq, tasks, req, outPath, model, client,
                 dlClient, reply, pollData, pollReply, content, exc, result,
                 response, propagated>>

\* bfl.py:132-147 and 174-176: the status request returns or raises; Ready
\* opens the download client and requests the signed URL, Failed raises,
\* any other status goes round the loop
BFLPollResponse(p) ==
  /\ pc[p] = "bfl_poll"
  /\ \E a \in PollAnswers :
       /\ pollReply' = [pollReply EXCEPT ![p] = a]
       /\ LET e == PollError(a)
              data == ParseJson(a.text).val
          IN  IF e # NoExc
                THEN /\ exc' = [exc EXCEPT ![p] = BFLCatch(e)]
                     /\ pc' = [pc EXCEPT ![p] = AfterGenerate(TRUE)]
                     /\ pollData' = IF e.cls = "KeyError"
                                      THEN [pollData EXCEPT ![p] = data]
                                      ELSE pollData
                     /\ UNCHANGED <<dlClient, eff>>
              ELSE IF StatusBranch(data.status) = "ready"
                THEN /\ pollData' = [pollData EXCEPT ![p] = data]
                     /\ dlClient' = [dlClient EXCEPT ![p] = "open"]
                     /\ eff' = [eff EXCEPT ![p].download = @ + 1]
                     /\ pc' = [pc EXCEPT ![p] = "bfl_download"]
                     /\ exc' = exc
              ELSE IF StatusBranch(data.status) = "failed"
                THEN /\ pollData' = [pollData EXCEPT ![p] = data]
                     /\ exc' = [exc EXCEPT ![p] = BFLCatch(JobFailedError(data))]
                     /\ pc' = [pc EXCEPT ![p] = AfterGenerate(TRUE)]
                     /\ UNCHANGED <<dlClient, eff>>
              ELSE /\ pollData' = [pollData EXCEPT ![p] = data]
                   /\ eff' = [eff EXCEPT ![p].pending = @ + 1]
                   /\ pc' = [pc EXCEPT ![p] = "bfl_loop"]
                   /\ UNCHANGED <<dlClient, exc>>
  /\ UNCHANGED <<env, now, sent, files, dirs, nreq, tasks, req, outPath, model, client,
                 attempt, reply, content, result, response, propagated>>

\* bfl.py:146-148: the download returns or raises (leaving the async with
\* closes the download client)
BFLDownloadResponse(p) ==
  /\ pc[p] = "bfl_download"
  /\ \E a \in DownloadAnswers :
       LET e == DownloadError(a)
       IN  IF e # NoExc
             THEN /\ exc' = [exc EXCEPT ![p] = BFLCatch(e)]
                  /\ pc' = [pc EXCEPT ![p] = AfterGenerate(TRUE)]
                  /\ dlClient' = [dlClient EXCEPT ![p] = "closed"]
                  /\ content' = content
             ELSE /\ exc' = exc
                  /\ pc' = [pc EXCEPT ![p] = "bfl_save"]
                  /\ dlClient' = dlClient
                  /\ content' = [content EXCEPT ![p] = a.text]
  /\ UNCHANGED <<env, now, sent, files, dirs, nreq, tasks, req, outPath, model, client,
                 attempt, reply, pollData, pollReply, result, response, propagated, eff>>

\* bfl.py:150-172
BFLSave(p) ==
  /\ pc[p] = "bfl_save"
  /\ \E w \in WriteOutcomes : SaveImage(p, w, BFLCatch(WriteError(w)))
  /\ dlClient' = [dlClient EXCEPT ![p] = "closed"]
  /\ UNCHANGED <<env, now, sent, nreq, tasks, req, outPath, model, client, attempt,
                 reply, pollData, pollReply, content, response, propagated>>

\* server.py:165-166 and 180-181: finally: await client.close()
CloseClient(p) ==
  /\ pc[p] = "close"
  /\ client' = [client EXCEPT ![p] = "closed"]
  /\ eff' = [eff EXCEPT ![p].closes = @ + 1]
  /\ pc' = [pc EXCEPT ![p] = "respond"]
  /\ UNCHANGED <<env, now, sent, files, dirs, nreq, tasks, req, outPath, model, dlClient,
                 attempt, reply, pollData, pollReply, content, exc, result, response,
                 propagated>>

\* server.py:183-222: the success text, or the except clause's failure text;
\* an exception the clause does not catch leaves the coroutine
Respond(p) ==
  /\ pc[p] = "respond"
  /\ pc' = [pc EXCEPT ![p] = "returned"]
  /\ IF exc[p] = NoExc
       THEN /\ response' = [response EXCEPT ![p] =
                 <<TextContent(SuccessText(req[p], outPath[p], result[p]))>>]
            /\ propagated' = propagated
       ELSE IF ToolCatches(exc[p])
         THEN /\ response' = [response EXCEPT ![p] =
                   <<TextContent(FailureText(req[p], model[p], exc[p]))>>]
              /\ propagated' = propagated
         ELSE /\ response' = response
              /\ propagated' = [propagated EXCEPT ![p] = TRUE]
  /\ UNCHANGED <<env, now, sent, files, dirs, nreq, tasks, req, outPath, model, client,
                 dlClient, attempt, reply, pollData, pollReply, content, exc, result, eff>>

Next ==
  \E p \in AllTasks :
    \/ Call(p)
    \/ ResolveProvider(p)
    \/ ComputePath(p)
    \/ CreateOutputDir(p)
    \/ StabilityStart(p)
    \/ StabilityResponse(p)
    \/ StabilitySave(p)
    \/ BFLStart(p)
    \/ BFLSubmitResponse(p)
    \/ BFLLoop(p)
    \/ BFLPoll(p)
    \/ BFLPollResponse(p)
    \/ BFLDownloadResponse(p)
    \/ BFLSave(p)
    \/ CloseClient(p)
    \/ Respond(p)

Spec == Init /\ [][Next]_vars

-----------------------------------------------------------------------------
(* The destination path of one call, over templates, prompts, models and    *)
(* the files already on disk                                                *)

\* The bound on the length of the generated prompts
MaxPromptChars == 3

\* The bound on the numbered files already on disk
MaxNumbered == 3

PromptSerene ==
  [head |-> "A serene mountain landscape at sunset with a lake reflection",
   len |-> 60]

\* A prompt that is all head
Prompt(text) == [head |-> text, len |-> Len(text)]

\* The strings of at most n characters over a few characters: a letter, a
\* capital, a letter that makes the word "to", a blank, a digit, an
\* underscore
RECURSIVE Strings(_)
Strings(n) ==
  IF n = 0 THEN {""}
  ELSE {""} \cup {c \o x : c \in {"a", "T", "o", " ", "1", "_"},
                            x \in Strings(n - 1)}

\* Prompts that reach the cut at max_length, the prefixes, the suffixes and
\* the common words
CraftedPrompts ==
  {"abcdefghijklmnopqrstuvwxyzabcdefghijklmnopqrstuvwxyzabcdefgh",
   "abcdefghijklmnop qrstuvwxyzabcdef ghijklmnopqrstuv wxyzabcdefghijkl mn",
   "with and or", "Highly detailed artwork of a dragon, 8k",
   "photo-realistic CAT!dog? 4k", "the fox_2 in concept art", "12 34"}

SubjectPrompts ==
  {Prompt(x) : x \in Strings(MaxPromptChars) \cup CraftedPrompts}

\* Templates made of recognized placeholders and plain text
Templates ==
  {DefaultTemplate, "{{.Timestamp}}-{{.Provider}}-{{.Subject}}", "",
   "{{.Counter}}", "{{.Model}}", "{{.Date}}_{{.Time}}_{{.Hash}}",
   "img-{{.Counter}}", "{{.Subject}}.png"}

\* The model argument of a call: absent, a model name, a string with braces
ModelArguments == {None, Some("flux-dev"), Some("{{x")}

FilenameRequests ==
  [prompt : {PromptShort, PromptSerene}, negative_prompt : {None},
   provider : {"stability", "bfl"}, model : ModelArguments,
   aspect_ratio : {"1:1"}, cfg_scale : {DefaultCfgScale}, seed : {None},
   output_dir : {"images"}, filename_template : Templates]
  \cup
  [prompt : SubjectPrompts, negative_prompt : {None},
   provider : {"stability"}, model : {None},
   aspect_ratio : {"1:1"}, cfg_scale : {DefaultCfgScale}, seed : {None},
   output_dir : {"images"}, filename_template : {"{{.Subject}}"}]

\* The model after server.py:136-137
ResolvedModel(r) ==
  IF Truthy(r.model) THEN r.model.val ELSE DefaultModel(r.provider)

\* The base name of a call: the rendered template with the extension
BaseName(r, t) ==
  AddExtension(apply_filename_template(r.filename_template, r.prompt,
                                       r.provider, ResolvedModel(r), None, t),
               "png")

\* The base name with the number k: _00k goes before ".png"; the name
\* ".png" is all stem to pathlib, so there the number goes behind it
NumberedName(base, k) ==
  IF base = ".png" THEN base \o "_" \o Pad3(k)
  ELSE DropLast(base, 4) \o "_" \o Pad3(k) \o ".png"

\* A disk that holds, for the numbers in S, the base name (0) and its
\* numbered names, left there by earlier calls
DiskOf(dir, base, S) ==
  [x \in {dir \o "/" \o (IF k = 0 THEN base ELSE NumberedName(base, k)) :
            k \in S} |-> "OLDDATA"]

\* The disks a call is tried on: every choice of the base name and its
\* numbered names for the calls that vary the template, the empty disk for
\* the calls that vary the prompt
DisksFor(r) ==
  IF r.filename_template \in Templates
    THEN SUBSET (0..MaxNumbered)
    ELSE {{}}

\* A call has been made and is about to resolve its provider; both
\* credentials are set
InitFilename ==
  /\ env = [STABILITY_API_KEY |-> Some("sk-stab"), BFL_API_KEY |-> Some("bfl_key")]
  /\ now \in Clock
  /\ nreq = 1
  /\ tasks = {1}
  /\ \E r \in FilenameRequests : \E S \in DisksFor(r) :
       /\ req = [p \in AllTasks |-> IF p = 1 THEN r ELSE NoRequest]
       /\ model = [p \in AllTasks |-> IF p = 1 THEN r.model ELSE None]
       /\ files = DiskOf(r.output_dir, BaseName(r, now), S)
       /\ dirs = IF S = {} THEN {} ELSE {r.output_dir}
  /\ pc = [p \in AllTasks |-> IF p = 1 THEN "resolve" ELSE "idle"]
  /\ outPath = [p \in AllTasks |-> NoPath]
  /\ client = [p \in AllTasks |-> "none"]
  /\ dlClient = [p \in AllTasks |-> "none"]
  /\ attempt = [p \in AllTasks |-> 0]
  /\ sent = [p \in AllTasks |-> NoSent]
  /\ reply = [p \in AllTasks |-> NoReply]
  /\ pollData = [p \in AllTasks |-> <<>>]
  /\ pollReply = [p \in AllTasks |-> NoReply]
  /\ content = [p \in AllTasks |-> ""]
  /\ exc = [p \in AllTasks |-> NoExc]
  /\ result = [p \in AllTasks |-> NoResult]
  /\ response = [p \in AllTasks |-> <<>>]
  /\ propagated = [p \in AllTasks |-> FALSE]
  /\ eff = [p \in AllTasks |-> NoEffects]

NextFilename ==
  \E p \in AllTasks :
    \/ ResolveProvider(p)
    \/ ComputePath(p)

SpecFilename == InitFilename /\ [][NextFilename]_vars

-----------------------------------------------------------------------------
(* Properties *)

Returned(p) == pc[p] = "returned"

\* The text of the one TextContent a returned call answered with
ResponseText(p) == response[p][1].text

\* The call returned the failure text / the success text
Failed(p) ==
  /\ Returned(p)
  /\ Len(response[p]) = 1
  /\ StartsWith(ResponseText(p), FailureHeader)

Succeeded(p) ==
  /\ Returned(p)
  /\ Len(response[p]) = 1
  /\ StartsWith(ResponseText(p), SuccessHeader)

\* result_data of the last poll reported this status
LastStatus(p, status) ==
  "status" \in DOMAIN pollData[p] /\ pollData[p].status = status

\* The failure texts the tool answers a call like p's with when a status
\* poll reports Failed, for the error messages of the model and for none
JobFailedTexts(p) ==
  { FailureText(req[p], model[p], BFLCatch(JobFailedError(ParseJson(b).val))) :
      b \in {BodyFailedNsfw, BodyFailedLikeTimeout, BodyFailedNoError} }

\* C1: a BFL call whose submit succeeded and whose 120 status polls all
\* reported a status other than Ready and Failed ends with the failure text
\* of a timeout, and that text is none of the texts of a Failed job.
C1_TimeoutDistinctFromJobFailed ==
  \A p \in AllTasks :
    (Returned(p) /\ eff[p].submit = 1 /\ eff[p].pending = max_attempts)
      => /\ Failed(p)
         /\ Contains(ResponseText(p),
                     "BFL generation timed out after 120 seconds")
         /\ ResponseText(p) \notin JobFailedTexts(p)

C1_Witness ==
  \E p \in AllTasks :
    /\ Returned(p)
    /\ eff[p].submit = 1
    /\ eff[p].poll = max_attempts
    /\ eff[p].pending = max_attempts
    /\ Failed(p)

\* C2: when a status poll reports Failed with an error message M, the call
\* returns the failure text, the text contains M, and the call has opened no
\* file: nothing is at its destination path.
C2_JobFailedSurfacesMessage ==
  \A p \in AllTasks :
    (Returned(p) /\ LastStatus(p, "Failed") /\ "error" \in DOMAIN pollData[p])
      => /\ Failed(p)
         /\ Contains(ResponseText(p), pollData[p].error)
         /\ eff[p].open = 0
         /\ eff[p].write = "none"
         /\ ~Exists(files, outPath[p])

C2_Witness ==
  \E p \in AllTasks :
    /\ Returned(p)
    /\ LastStatus(p, "Failed")
    /\ "error" \in DOMAIN pollData[p]
    /\ pollData[p].error = "NSFW content detected"
    /\ Contains(ResponseText(p), "NSFW content detected")

C4_ClientsClosedOnReturn ==
  \A p \in AllTasks :
    Returned(p)
      => /\ client[p] # "open"
         /\ dlClient[p] # "open"
         /\ eff[p].closes = eff[p].clients

C4_Witness ==
  \E p \in AllTasks :
    /\ Failed(p)
    /\ eff[p].write = "write_fails_partial"
    /\ eff[p].clients = 1
    /\ client[p] = "closed"
    /\ dlClient[p] = "closed"

\* C5 (as claimed): a call whose prompt or negative prompt is longer than
\* 10,000 characters makes no outbound network call and returns the failure
\* text, for either provider.
C5_LongPromptRejected ==
  \A p \in AllTasks :
    (\/ req[p].prompt.len > 10000
     \/ (req[p].negative_prompt.some /\ req[p].negative_prompt.val.len > 10000))
      => /\ NetCalls(p) = 0
         /\ Returned(p) => Failed(p)

\* C6 (as claimed): when the generation or submit request is answered with a
\* status other than 200 (for BFL: and other than 402 and 429) and the body
\* is a JSON object with a message, the error text is the provider's
\* "API Error: " followed by that message; the raw "<status> - <body>" form
\* appears only when the body does not parse.
C6_UpstreamMessageWhenParseable ==
  \A p \in AllTasks :
    (/\ Returned(p)
     /\ reply[p].kind = "response"
     /\ reply[p].status_code # 200
     /\ ~(req[p].provider = "bfl" /\ reply[p].status_code \in {402, 429}))
      => LET j == ParseJson(reply[p].text)
             raw == ToString(reply[p].status_code) \o " - " \o reply[p].text
         IN  /\ (j.ok /\ j.kind = "object" /\ "message" \in DOMAIN j.val)
                  => Contains(ResponseText(p), "API Error: " \o j.val.message)
             /\ Contains(ResponseText(p), raw) => ~j.ok

\* C7 (as claimed): when the write fails after the file was opened, no file,
\* empty or partial, is at the destination path.
C7_NoFileLeftOnWriteFailure ==
  \A p \in AllTasks :
    eff[p].write \in {"write_fails_empty", "write_fails_partial"}
      => ~Exists(files, outPath[p])

\* C8: a returned call has answered with exactly one TextContent and no
\* exception has left the handler; when anything was raised on the way, the
\* one text is the failure text and carries str(e).
C8_EveryFailureIsOneResponse ==
  \A p \in AllTasks :
    Returned(p)
      => /\ ~propagated[p]
         /\ Len(response[p]) = 1
         /\ response[p][1].type = "text"
         /\ exc[p] # NoExc
              => /\ StartsWith(ResponseText(p), FailureHeader)
                 /\ Contains(ResponseText(p), exc[p].msg)
         /\ exc[p] = NoExc => StartsWith(ResponseText(p), SuccessHeader)

C8_Witness ==
  \E p \in AllTasks :
    /\ Returned(p)
    /\ exc[p].cls = "ValueError"
    /\ req[p].prompt.len > 10000
    /\ eff[p].clients = 1
    /\ Failed(p)

\* The selected provider's credential is unset or empty
CredentialAbsent(p) ==
  LET k == IF req[p].provider = "stability"
             THEN env.STABILITY_API_KEY
             ELSE env.BFL_API_KEY
  IN  ~k.some \/ k.val = ""

ConfigurationBad(p) ==
  /\ pc[p] # "idle"
  /\ req[p].provider \notin {"stability", "bfl"} \/ CredentialAbsent(p)

\* C9: a call with an unsupported provider name, or whose provider's
\* credential is absent, has at no point constructed a client, sent a
\* request, computed a path, made a directory or opened a file; it returns
\* the failure text naming the configuration error.
C9_ConfigurationErrorHasNoEffect ==
  \A p \in AllTasks :
    ConfigurationBad(p)
      => /\ eff[p] = NoEffects
         /\ outPath[p] = NoPath
         /\ client[p] = "none"
         /\ pc[p] \in {"resolve", "respond", "returned"}
         /\ Returned(p)
              => /\ Failed(p)
                 /\ \/ Contains(ResponseText(p), "Unsupported provider: ")
                    \/ Contains(ResponseText(p),
                                "_API_KEY environment variable not set")

C9_Witness ==
  \E p \in AllTasks :
    /\ Failed(p)
    /\ req[p].provider = "bfl"
    /\ env.BFL_API_KEY = Some("")
    /\ dirs # {}

\* C10: a BFL call sends at most 1 submit, at most 120 status polls and at
\* most 1 download, its attempt counter never exceeds 120, and it sends no
\* Stability request; a Stability call sends no BFL request and at most 1
\* generation request, and exactly 1 once it has passed the checks made
\* before the request.
C10_NetworkCallsBounded ==
  \A p \in AllTasks :
    /\ eff[p].submit <= 1
    /\ eff[p].poll <= 120
    /\ attempt[p] <= 120
    /\ eff[p].poll = attempt[p]
    /\ eff[p].download <= 1
    /\ eff[p].post <= 1
    /\ req[p].provider = "bfl" => eff[p].post = 0
    /\ req[p].provider = "stability"
         => eff[p].submit + eff[p].poll + eff[p].download = 0
    /\ (/\ Returned(p)
        /\ req[p].provider = "stability"
        /\ eff[p].clients = 1
        /\ req[p].prompt.len <= 10000
        /\ ~(req[p].negative_prompt.some
             /\ req[p].negative_prompt.val.len > 10000))
         => eff[p].post = 1

C10_Witness ==
  \E p \in AllTasks :
    /\ Returned(p)
    /\ eff[p].submit = 1
    /\ eff[p].poll = 120
    /\ attempt[p] = 120

-----------------------------------------------------------------------------
(* One call from its arguments to its answer, over models, aspect ratios,   *)
(* guidance scales, seeds and negative prompts                              *)

\* The model argument: absent, empty, a Stability model, a turbo model, a
\* BFL model, an unknown name
ParamModels ==
  {None, Some(""), Some("sd3-medium"), Some("sd3.5-large-turbo"),
   Some("flux-dev"), Some("dall-e-3")}

\* The nine ratios, an unknown ratio, the empty string
ParamAspectRatios == AspectRatios \cup {"7:7", ""}

\* Guidance scales below, at, inside and above [1.0, 10.0], as JSON
\* integers and as JSON reals
ParamCfgScales ==
  {Whole(-5), Float(5), Whole(1), Float(10), Float(11), Float(55), Whole(7),
   DefaultCfgScale, Float(99), Whole(10), Float(100), Float(101), Whole(15)}

ParamSeeds == {None, Some(0), Some(42)}

ScenarioTemplate == "{{.Timestamp}}-{{.Provider}}-{{.Subject}}"

\* The calls: model and aspect ratio vary with the rest at its default;
\* guidance scale, seed and negative prompt vary for two models and two
\* ratios; and the call of the example (filename.py:153-156)
ParamRequests ==
  [prompt : {PromptShort}, negative_prompt : {None},
   provider : {"stability", "bfl"}, model : ParamModels,
   aspect_ratio : ParamAspectRatios, cfg_scale : {DefaultCfgScale},
   seed : {None}, output_dir : {"images"},
   filename_template : {DefaultTemplate}]
  \cup
  [prompt : {PromptShort}, negative_prompt : {None, Some(PromptShort)},
   provider : {"stability"}, model : {None, Some("sd3.5-large-turbo")},
   aspect_ratio : {"1:1"}, cfg_scale : ParamCfgScales,
   seed : ParamSeeds, output_dir : {"images"},
   filename_template : {DefaultTemplate}]
  \cup
  [prompt : {PromptShort}, negative_prompt : {None, Some(PromptShort)},
   provider : {"bfl"}, model : {None},
   aspect_ratio : {"3:2"}, cfg_scale : {DefaultCfgScale, Whole(15)},
   seed : {None, Some(42)}, output_dir : {"images"},
   filename_template : {DefaultTemplate}]
  \cup
  [prompt : {PromptSerene}, negative_prompt : {None},
   provider : {"stability"}, model : {None},
   aspect_ratio : {"1:1"}, cfg_scale : {DefaultCfgScale},
   seed : {None}, output_dir : {"images"},
   filename_template : {ScenarioTemplate}]

\* A call has been made and is about to resolve its provider; both
\* credentials are set and the disk is empty
InitParams ==
  /\ env = [STABILITY_API_KEY |-> Some("sk-stab"), BFL_API_KEY |-> Some("bfl_key")]
  /\ now \in Clock
  /\ nreq = 1
  /\ tasks = {1}
  /\ files = <<>>
  /\ dirs = {}
  /\ \E r \in ParamRequests :
       /\ req = [p \in AllTasks |-> IF p = 1 THEN r ELSE NoRequest]
       /\ model = [p \in AllTasks |-> IF p = 1 THEN r.model ELSE None]
  /\ pc = [p \in AllTasks |-> IF p = 1 THEN "resolve" ELSE "idle"]
  /\ outPath = [p \in AllTasks |-> NoPath]
  /\ client = [p \in AllTasks |-> "none"]
  /\ dlClient = [p \in AllTasks |-> "none"]
  /\ attempt = [p \in AllTasks |-> 0]
  /\ sent = [p \in AllTasks |-> NoSent]
  /\ reply = [p \in AllTasks |-> NoReply]
  /\ pollData = [p \in AllTasks |-> <<>>]
  /\ pollReply = [p \in AllTasks |-> NoReply]
  /\ content = [p \in AllTasks |-> ""]
  /\ exc = [p \in AllTasks |-> NoExc]
  /\ result = [p \in AllTasks |-> NoResult]
  /\ response = [p \in AllTasks |-> <<>>]
  /\ propagated = [p \in AllTasks |-> FALSE]
  /\ eff = [p \in AllTasks |-> NoEffects]

NextParams ==
  \E p \in AllTasks :
    \/ ResolveProvider(p)
    \/ ComputePath(p)
    \/ CreateOutputDir(p)
    \/ StabilityStart(p)
    \/ StabilityResponse(p)
    \/ StabilitySave(p)
    \/ BFLStart(p)
    \/ BFLSubmitResponse(p)
    \/ BFLLoop(p)
    \/ BFLPoll(p)
    \/ BFLPollResponse(p)
    \/ BFLDownloadResponse(p)
    \/ BFLSave(p)
    \/ CloseClient(p)
    \/ Respond(p)

SpecParams == InitParams /\ [][NextParams]_vars

-----------------------------------------------------------------------------
(* Two calls with the same arguments at the same time.  The server runs    *)
(* each call as a task of one event loop; a task gives way at its awaits.  *)
(* Here every action of a call may be followed by an action of the other   *)
(* call, which includes the runs of the event loop.                        *)

\* Both calls have been made with the same arguments and are about to
\* resolve the provider; both credentials are set and the disk is empty
InitConcurrent ==
  /\ env = [STABILITY_API_KEY |-> Some("sk-stab"), BFL_API_KEY |-> Some("bfl_key")]
  /\ now \in Clock
  /\ nreq = 2
  /\ tasks = {1, 2}
  /\ files = <<>>
  /\ dirs = {}
  /\ \E r \in {x \in Requests : x.provider = "stability"
                                 /\ x.prompt = PromptShort
                                 /\ x.negative_prompt = None} :
       /\ req = [p \in AllTasks |-> IF p \in {1, 2} THEN r ELSE NoRequest]
       /\ model = [p \in AllTasks |-> IF p \in {1, 2} THEN r.model ELSE None]
  /\ pc = [p \in AllTasks |-> IF p \in {1, 2} THEN "resolve" ELSE "idle"]
  /\ outPath = [p \in AllTasks |-> NoPath]
  /\ client = [p \in AllTasks |-> "none"]
  /\ dlClient = [p \in AllTasks |-> "none"]
  /\ attempt = [p \in AllTasks |-> 0]
  /\ sent = [p \in AllTasks |-> NoSent]
  /\ reply = [p \in AllTasks |-> NoReply]
  /\ pollData = [p \in AllTasks |-> <<>>]
  /\ pollReply = [p \in AllTasks |-> NoReply]
  /\ content = [p \in AllTasks |-> ""]
  /\ exc = [p \in AllTasks |-> NoExc]
  /\ result = [p \in AllTasks |-> NoResult]
  /\ response = [p \in AllTasks |-> <<>>]
  /\ propagated = [p \in AllTasks |-> FALSE]
  /\ eff = [p \in AllTasks |-> NoEffects]

NextConcurrent ==
  \E p \in AllTasks :
    \/ ResolveProvider(p)
    \/ ComputePath(p)
    \/ CreateOutputDir(p)
    \/ StabilityStart(p)
    \/ StabilityResponse(p)
    \/ StabilitySave(p)
    \/ CloseClient(p)
    \/ Respond(p)

SpecConcurrent == InitConcurrent /\ [][NextConcurrent]_vars

(* One call that is run to its end.  The event loop runs a task that can   *)
(* take a step; every awaited network call returns or raises, and every    *)
(* sleep ends.  The disk holds the names earlier calls left in the output  *)
(* directory.                                                              *)

\* The disks a call is run on: the base name and its numbered names up to a
\* number, or none
DisksBefore == {0..(k - 1) : k \in 0..(MaxNumbered + 1)}

\* The calls that are run to their end: the short prompt on every disk, the
\* other prompts on the empty disk
TerminationRequests(S) ==
  {r \in Requests :
     /\ r.negative_prompt = None
     /\ r.prompt = PromptShort \/ S = {}}

\* A call has been made and is about to resolve its provider
InitTermination ==
  /\ env \in Environments
  /\ now \in Clock
  /\ nreq = 1
  /\ tasks = {1}
  /\ \E S \in DisksBefore : \E r \in TerminationRequests(S) :
       /\ req = [p \in AllTasks |-> IF p = 1 THEN r ELSE NoRequest]
       /\ model = [p \in AllTasks |-> IF p = 1 THEN r.model ELSE None]
       /\ files = DiskOf(r.output_dir, BaseName(r, now), S)
       /\ dirs = IF S = {} THEN {} ELSE {r.output_dir}
  /\ pc = [p \in AllTasks |-> IF p = 1 THEN "resolve" ELSE "idle"]
  /\ outPath = [p \in AllTasks |-> NoPath]
  /\ client = [p \in AllTasks |-> "none"]
  /\ dlClient = [p \in AllTasks |-> "none"]
  /\ attempt = [p \in AllTasks |-> 0]
  /\ sent = [p \in AllTasks |-> NoSent]
  /\ reply = [p \in AllTasks |-> NoReply]
  /\ pollData = [p \in AllTasks |-> <<>>]
  /\ pollReply = [p \in AllTasks |-> NoReply]
  /\ content = [p \in AllTasks |-> ""]
  /\ exc = [p \in AllTasks |-> NoExc]
  /\ result = [p \in AllTasks |-> NoResult]
  /\ response = [p \in AllTasks |-> <<>>]
  /\ propagated = [p \in AllTasks |-> FALSE]
  /\ eff = [p \in AllTasks |-> NoEffects]

\* A step of the call of task p
TaskStep(p) ==
  \/ ResolveProvider(p)
  \/ ComputePath(p)
  \/ CreateOutputDir(p)
  \/ StabilityStart(p)
  \/ StabilityResponse(p)
  \/ StabilitySave(p)
  \/ BFLStart(p)
  \/ BFLSubmitResponse(p)
  \/ BFLLoop(p)
  \/ BFLPoll(p)
  \/ BFLPollResponse(p)
  \/ BFLDownloadResponse(p)
  \/ BFLSave(p)
  \/ CloseClient(p)
  \/ Respond(p)

NextTermination == \E p \in AllTasks : TaskStep(p)

\* A task that can take a step takes one
Fairness == \A p \in AllTasks : WF_vars(TaskStep(p))

SpecTermination == InitTermination /\ [][NextTermination]_vars /\ Fairness

-----------------------------------------------------------------------------
(* Properties of the destination path *)

\* generate_filename has returned to p's call and nothing was written since
PathComputed(p) == p \in tasks /\ pc[p] = "mkdir"

\* The file of this name is on disk in the output directory of p's call
OnDisk(p, name) == (req[p].output_dir \o "/" \o name) \in DOMAIN files

\* The path of p's call is right for the base name: not on disk; the base
\* name when that is not on disk; otherwise the base name with the least
\* number from 1 on whose name is not on disk
ResolvedFrom(p, base) ==
  /\ outPath[p].parent = req[p].output_dir
  /\ ~OnDisk(p, outPath[p].name)
  /\ ~OnDisk(p, base) => outPath[p].name = base
  /\ OnDisk(p, base)
       => \E k \in 1..(MaxNumbered + 1) :
            /\ outPath[p].name = NumberedName(base, k)
            /\ \A j \in 1..(k - 1) : OnDisk(p, NumberedName(base, j))

NoAlphabeticWord(s) ==
  \A i \in 1..Len(s) : \A j \in i..Len(s) :
    ~(/\ \A k \in i..j : IsLetter(Char(s, k))
      /\ (i = 1 \/ ~IsWordChar(Char(s, i - 1)))
      /\ (j = Len(s) \/ ~IsWordChar(Char(s, j + 1))))

\* The subject is 1 to 50 characters of a-z, 0-9 and the underscore
WellFormed(subject) ==
  /\ Len(subject) >= 1
  /\ Len(subject) <= 50
  /\ \A i \in 1..Len(subject) :
       CharIn(Char(subject, i), "abcdefghijklmnopqrstuvwxyz0123456789_")

\* C17: the subject extract_subject makes of the prompt of a call is 1 to 50
\* characters long, every character is one of a-z, 0-9 and the underscore,
\* and it is "image" when the prompt, its prefix and suffix cut, holds no
\* alphabetic word.
C17_SubjectWellFormed ==
  \A p \in AllTasks :
    PathComputed(p)
      => /\ WellFormed(extract_subject(PromptText(req[p].prompt)))
         /\ NoAlphabeticWord(RemoveSuffix(RemovePrefix(
                               Lower(PromptText(req[p].prompt)))))
              => extract_subject(PromptText(req[p].prompt)) = "image"

C17_Witness ==
  \E p \in AllTasks :
    /\ PathComputed(p)
    /\ req[p].prompt.len > 50
    /\ Len(extract_subject(PromptText(req[p].prompt))) = 50
    /\ outPath[p].name
         = "abcdefghijklmnop_qrstuvwxyzabcdef_ghijklmnopqrstuv.png"

ModelHanded(p) ==
  IF req[p].model.some /\ req[p].model.val # ""
    THEN req[p].model.val
    ELSE IF req[p].provider = "stability" THEN "sd3.5-large" ELSE "flux-pro-1.1"

\* The model a provider's client is to use for the string handed to it
ModelExpected(p) ==
  LET valid == IF req[p].provider = "stability"
                 THEN {"sd3-large", "sd3-large-turbo", "sd3-medium",
                       "sd3.5-large", "sd3.5-large-turbo", "sd3.5-medium"}
                 ELSE {"flux-pro-1.1-ultra", "flux-pro-1.1", "flux-pro",
                       "flux-dev"}
  IN  IF ModelHanded(p) \in valid THEN ModelHanded(p)
      ELSE IF req[p].provider = "stability" THEN "sd3.5-large"
      ELSE "flux-pro-1.1"

NineRatios == {"16:9", "1:1", "21:9", "2:3", "3:2", "4:5", "5:4", "9:16", "9:21"}

\* p's call has sent its generation or submit request
RequestSent(p) == sent[p] # NoSent

\* p's client has taken the call over: generate_image was entered
ClientEntered(p) ==
  pc[p] \notin {"idle", "resolve", "filename", "mkdir", "client"}
  /\ eff[p].clients = 1

\* C13: whatever the model and aspect-ratio strings of a call, no ValueError
\* is raised for them and the request is sent; the model of the result (for
\* BFL also the route of the submit request) is the string handed over when
\* it is one of the provider's models and the provider's default otherwise;
\* the aspect ratio sent to Stability is the caller's when it is one of the
\* nine ratios and 1:1 otherwise.
C13_ParametersNormalized ==
  \A p \in AllTasks :
    /\ exc[p].cls # "ValueError"
    /\ ClientEntered(p) => RequestSent(p) /\ NetCalls(p) >= 1
    /\ (RequestSent(p) /\ req[p].provider = "stability")
         => /\ sent[p].body.aspect_ratio \in NineRatios
            /\ sent[p].body.aspect_ratio =
                 (IF req[p].aspect_ratio \in NineRatios
                    THEN req[p].aspect_ratio ELSE "1:1")
    /\ (RequestSent(p) /\ req[p].provider = "bfl")
         => sent[p].route = "/" \o ModelExpected(p)
    /\ result[p].success
         => /\ result[p].model = ModelExpected(p)
            /\ result[p].parameters.model = ModelExpected(p)

C13_Witness ==
  \E p \in AllTasks :
    /\ Succeeded(p)
    /\ req[p].provider = "stability"
    /\ req[p].model = Some("dall-e-3")
    /\ req[p].aspect_ratio = "7:7"
    /\ sent[p].body.aspect_ratio = "1:1"
    /\ result[p].model = "sd3.5-large"

\* The call with the negative prompt, the guidance scale and the seed at
\* their defaults
Neutral(r) ==
  [r EXCEPT !.negative_prompt = None, !.cfg_scale = Float(70), !.seed = None]

\* C14: what a BFL call sends, returns and answers on failure is what the
\* same call without negative prompt, with guidance scale 7.0 and without
\* seed sends, returns and answers: the submit request is the prompt, the
\* width and the height to the model's route and nothing else, and the
\* result dict and the failure text carry none of the three either.
C14_BFLIgnoresUnsupported ==
  \A p \in AllTasks :
    req[p].provider = "bfl"
      => /\ RequestSent(p)
              => /\ sent[p] = BFLRequest(Neutral(req[p]), ModelHanded(p))
                 /\ DOMAIN sent[p].body = {"prompt", "width", "height"}
         /\ result[p].success
              => /\ result[p].parameters
                      = BFLParameters(Neutral(req[p]), ModelHanded(p))
                 /\ DOMAIN result[p].parameters
                      = {"prompt", "model", "width", "height", "aspect_ratio",
                         "output_format"}
                 /\ result[p].image_size = Len(content[p])
         /\ Failed(p)
              => ResponseText(p) = FailureText(Neutral(req[p]), model[p], exc[p])
         /\ eff[p].post = 0

C14_Witness ==
  \E p \in AllTasks :
    /\ Succeeded(p)
    /\ req[p].provider = "bfl"
    /\ req[p].negative_prompt = Some(PromptShort)
    /\ req[p].cfg_scale = Whole(15)
    /\ req[p].seed = Some(42)
    /\ sent[p].body = [prompt |-> PromptShort, width |-> 1216, height |-> 832]

\* The guidance scale, in tenths, clamped to [1.0, 10.0]
Clamped(t) == IF t < 10 THEN 10 ELSE IF t > 100 THEN 100 ELSE t

\* The decimal numerals of a number of tenths: "7.0", and "7" for a whole
Numerals(t) ==
  {ToString(t \div 10) \o "." \o ToString(t % 10)}
  \cup (IF t % 10 = 0 THEN {ToString(t \div 10)} ELSE {})

\* C15: a Stability call is not rejected for its guidance scale; the scale
\* sent is the caller's clamped to [1.0, 10.0]: -5 and 0.5 go out as 1.0,
\* 7 as 7, 15 as 10.0, and a scale inside the range goes out unchanged.
C15_CfgScaleClamped ==
  \A p \in AllTasks :
    req[p].provider = "stability"
      => /\ ClientEntered(p) => RequestSent(p)
         /\ RequestSent(p)
              => /\ sent[p].body.cfg_scale \in Numerals(Clamped(req[p].cfg_scale.t))
                 /\ req[p].cfg_scale = Whole(-5) => sent[p].body.cfg_scale = "1.0"
                 /\ req[p].cfg_scale = Float(5) => sent[p].body.cfg_scale = "1.0"
                 /\ req[p].cfg_scale = Whole(7) => sent[p].body.cfg_scale \in {"7", "7.0"}
                 /\ req[p].cfg_scale = Whole(15) => sent[p].body.cfg_scale = "10.0"
                 /\ (req[p].cfg_scale.t >= 10 /\ req[p].cfg_scale.t <= 100)
                      => sent[p].body.cfg_scale \in Numerals(req[p].cfg_scale.t)
         /\ result[p].success
              => result[p].parameters.cfg_scale.t = Clamped(req[p].cfg_scale.t)

C15_Witness ==
  \E p \in AllTasks :
    /\ Succeeded(p)
    /\ req[p].provider = "stability"
    /\ req[p].cfg_scale = Float(5)
    /\ sent[p].body.cfg_scale = "1.0"
    /\ result[p].parameters.cfg_scale.t = 10

\* p's call is the call of the example
Scenario(p) ==
  /\ req[p].prompt.head
       = "A serene mountain landscape at sunset with a lake reflection"
  /\ req[p].prompt.len = 60
  /\ req[p].provider = "stability"
  /\ req[p].aspect_ratio = "1:1"
  /\ req[p].filename_template = "{{.Timestamp}}-{{.Provider}}-{{.Subject}}"

\* C16 (as claimed): the call of the example saves its image as
\* <timestamp>-stability-mountain_landscape_sunset_lake.png.
C16_ScenarioFileName ==
  \A p \in AllTasks :
    (Scenario(p) /\ Succeeded(p))
      => outPath[p].name = now.date \o "." \o now.time
                           \o "-stability-mountain_landscape_sunset_lake.png"

\* C16 (amended): the call of the example saves its image as
\* <timestamp>-stability-serene_mountain_landscape_sunset.png: the subject is
\* the first four words that are not common words, after the prefix "a ".
C16_ScenarioFileNameAmended ==
  \A p \in AllTasks :
    (Scenario(p) /\ Succeeded(p))
      => /\ outPath[p].name = now.date \o "." \o now.time
                              \o "-stability-serene_mountain_landscape_sunset.png"
         /\ OnDisk(p, outPath[p].name)
         /\ files[PathStr(outPath[p])] = ImageBytes

C16_Witness ==
  \E p \in AllTasks :
    /\ Scenario(p)
    /\ Succeeded(p)
    /\ OnDisk(p, "110326.101500-stability-serene_mountain_landscape_sunset.png")

\* The nine entries of the table
TableEntry(a) ==
  CASE a = "16:9" -> <<1344, 768>>
    [] a = "1:1"  -> <<1024, 1024>>
    [] a = "21:9" -> <<1536, 640>>
    [] a = "2:3"  -> <<832, 1216>>
    [] a = "3:2"  -> <<1216, 832>>
    [] a = "4:5"  -> <<896, 1152>>
    [] a = "5:4"  -> <<1152, 896>>
    [] a = "9:16" -> <<768, 1344>>
    [] a = "9:21" -> <<640, 1536>>

\* C19: the width and height a BFL call submits are those of the table for
\* each of the nine ratios, 1216 by 832 for 3:2, and 1024 by 1024 for every
\* other string.
C19_AspectRatioToDimensions ==
  \A p \in AllTasks :
    (req[p].provider = "bfl" /\ RequestSent(p))
      => LET dims == <<sent[p].body.width, sent[p].body.height>>
         IN  /\ req[p].aspect_ratio \in NineRatios
                  => dims = TableEntry(req[p].aspect_ratio)
             /\ req[p].aspect_ratio = "3:2" => dims = <<1216, 832>>
             /\ req[p].aspect_ratio \notin NineRatios => dims = <<1024, 1024>>
             /\ result[p].success
                  => /\ result[p].parameters.width = dims[1]
                     /\ result[p].parameters.height = dims[2]

C19_Witness ==
  \E p \in AllTasks :
    /\ req[p].provider = "bfl"
    /\ req[p].aspect_ratio = "7:7"
    /\ Succeeded(p)
    /\ sent[p].body.width = 1024
    /\ sent[p].body.height = 1024

(* Properties of concurrent calls *)

\* p's call holds a path, and no file is at that path
HoldsFreePath(p) ==
  /\ p \in tasks
  /\ outPath[p] # NoPath
  /\ PathStr(outPath[p]) \notin DOMAIN files

\* C12: nothing keeps a path for the call that computed it.  While one call
\* holds a path that is not on disk yet, generate_filename gives another call
\* with the same arguments that same path; two calls that computed their
\* paths on the empty disk hold the same path; and when both wrote, one file
\* is on disk for the two of them.
C12_CheckThenActRace ==
  \A p \in AllTasks : \A q \in AllTasks :
    (p # q /\ p \in tasks /\ q \in tasks /\ req[p] = req[q])
      => /\ (pc[p] = "filename" /\ HoldsFreePath(q))
              => generate_filename(req[p].filename_template, req[p].prompt,
                                   req[p].provider, model[p].val,
                                   req[p].output_dir, "png", None, files, now)
                 = outPath[q]
         /\ (files = <<>> /\ outPath[p] # NoPath /\ outPath[q] # NoPath)
              => outPath[p] = outPath[q]
         /\ (eff[p].write = "ok" /\ eff[q].write = "ok"
             /\ outPath[p] = outPath[q])
              => Cardinality(DOMAIN files) = 1

\* Both calls answered with success and name the same file; the call that
\* wrote last left it cut short, so the file is not what call 1 received.
C12_Witness ==
  /\ Succeeded(1)
  /\ eff[1].write = "ok"
  /\ eff[2].write = "write_fails_partial"
  /\ outPath[1] = outPath[2]
  /\ outPath[1].name = "110326.101500-red_fox.png"
  /\ files[PathStr(outPath[1])] # content[1]

(* Properties of the polling loop *)

\* The last status poll of p's call reported Ready or Failed
TerminalStatus(p) == LastStatus(p, "Ready") \/ LastStatus(p, "Failed")

\* C20: once a status poll of a call has reported Ready or Failed, that poll
\* is the last one of the call: the loop is left, every earlier poll
\* reported another status, and no poll is in flight.  A call that returns
\* after Failed answers with the failure of the job, never with success nor
\* with the timeout of the loop; a call that returns after Ready answers with
\* neither the failure of the job nor the timeout of the loop.
C20_TerminalStatusIsFinal ==
  \A p \in AllTasks :
    TerminalStatus(p)
      => /\ pc[p] \notin {"bfl_loop", "bfl_sleep", "bfl_poll"}
         /\ eff[p].poll = eff[p].pending + 1
         /\ exc[p] # BFLCatch(PollTimeoutError)
         /\ (Returned(p) /\ LastStatus(p, "Failed"))
              => /\ Failed(p)
                 /\ exc[p].msg = "Failed to generate image: BFL generation failed: "
                                 \o Get(pollData[p], "error", "Unknown error")
                 /\ ~result[p].success
         /\ (Returned(p) /\ LastStatus(p, "Ready"))
              => /\ ~StartsWith(exc[p].msg,
                               "Failed to generate image: BFL generation failed: ")
                 /\ Succeeded(p) <=> exc[p] = NoExc

C20_Witness ==
  \E p \in AllTasks :
    /\ Succeeded(p)
    /\ LastStatus(p, "Ready")
    /\ eff[p].pending = 2
    /\ eff[p].poll = 3

-----------------------------------------------------------------------------
(* Properties of the order of the steps of a BFL call *)

\* The submit request of p's call returned 200 with a job id
JobIdReturned(p) ==
  /\ reply[p].kind = "response"
  /\ reply[p].status_code = 200
  /\ ParseJson(reply[p].text).ok
  /\ "id" \in DOMAIN ParseJson(reply[p].text).val

\* The answer a is a 200 whose body reports the status
Reports(a, status) ==
  /\ a.kind = "response"
  /\ a.status_code = 200
  /\ ParseJson(a.text).ok
  /\ "status" \in DOMAIN ParseJson(a.text).val
  /\ ParseJson(a.text).val.status = status

\* Requests of p's call that have been sent and not been answered
InFlight(p) ==
  (IF pc[p] = "bfl_submit" THEN 1 ELSE 0)
  + (IF pc[p] = "bfl_poll" THEN 1 ELSE 0)
  + (IF pc[p] = "bfl_download" THEN 1 ELSE 0)

\* The step sends a status poll of p's call: the submit request has returned
\* a job id, a sleep has begun since the poll before and is over, and no
\* request of the call is in flight
PollInOrder(p) ==
  eff'[p].poll = eff[p].poll + 1
    => /\ JobIdReturned(p)
       /\ eff[p].submit = 1
       /\ pc[p] = "bfl_sleep"
       /\ eff[p].sleep = eff[p].poll + 1
       /\ InFlight(p) = 0
       /\ eff[p].download = 0

\* The step begins a sleep of p's call: every poll sent has been answered
SleepInOrder(p) ==
  eff'[p].sleep = eff[p].sleep + 1
    => /\ eff[p].sleep = eff[p].poll
       /\ InFlight(p) = 0
       /\ JobIdReturned(p)

\* The step sends the download of p's call: it is the step in which a status
\* poll returned Ready, and the first download
DownloadInOrder(p) ==
  eff'[p].download = eff[p].download + 1
    => /\ pc[p] = "bfl_poll"
       /\ Reports(pollReply'[p], "Ready")
       /\ eff[p].download = 0
       /\ eff[p].open = 0

\* The step writes the file of p's call: the download has been sent and has
\* returned the image with a 2xx status, and no request is in flight
WriteInOrder(p) ==
  eff'[p].write # eff[p].write /\ eff'[p].write # "none"
    => /\ eff[p].download = 1
       /\ Reports(pollReply[p], "Ready")
       /\ content[p] \in {a.text : a \in {d \in DownloadAnswers :
                                              DownloadError(d) = NoExc}}
       /\ InFlight(p) = 0
       /\ eff[p].write = "none"

\* C21: within one BFL call a status poll is sent only after the submit
\* request returned a job id and after a sleep begun since the poll before,
\* the download is sent only when a poll returned Ready, the file is written
\* only after the download returned successfully, and a request is sent only
\* when no other request of the call is in flight.
C21_BFLStepsOrdered ==
  [][\A p \in AllTasks :
       req[p].provider = "bfl" /\ req'[p] = req[p] /\ pc[p] # "returned"
         => /\ PollInOrder(p)
            /\ SleepInOrder(p)
            /\ DownloadInOrder(p)
            /\ WriteInOrder(p)]_vars

C21_Witness ==
  \E p \in AllTasks :
    /\ Succeeded(p)
    /\ req[p].provider = "bfl"
    /\ eff[p].sleep = 2
    /\ eff[p].poll = 2
    /\ eff[p].download = 1
    /\ eff[p].write = "ok"

-----------------------------------------------------------------------------
(* Properties of a failed status poll *)

\* The answer a is a network error, a timeout of the call, or a response
\* with a status that is not 2xx
CallFailed(a) ==
  \/ a.kind = "raise"
  \/ a.kind = "response" /\ ~(a.status_code >= 200 /\ a.status_code < 300)

\* The last status poll of p's call failed
PollFailed(p) == req[p].provider = "bfl" /\ CallFailed(pollReply[p])

\* After a failed poll: the loop is left with an exception, that poll is the
\* last one sent, nothing was downloaded or written, and a call that
\* returned answered with the failure text
StoppedByFailedPoll(p) ==
  /\ pc[p] \in {"close", "respond", "returned"}
  /\ exc[p] # NoExc
  /\ IsInstance(exc[p], "RuntimeError")
  /\ eff[p].poll = eff[p].pending + 1
  /\ eff[p].sleep = eff[p].poll
  /\ eff[p].download = 0
  /\ dlClient[p] = "none"
  /\ eff[p].open = 0
  /\ eff[p].write = "none"
  /\ ~result[p].success
  /\ Returned(p) => Failed(p)

\* A step of a call whose last poll failed sends nothing and writes nothing
NothingAfterFailedPoll(p) ==
  /\ eff'[p].poll = eff[p].poll
  /\ eff'[p].sleep = eff[p].sleep
  /\ eff'[p].download = eff[p].download
  /\ eff'[p].open = eff[p].open
  /\ eff'[p].write = eff[p].write

\* C22: when a status poll of a BFL call fails (network error, timeout of
\* the call, or a status that is not 2xx), the loop is left at once with an
\* error: no further sleep, poll or download follows, no file is written, and
\* the call answers with the failure text.
C22_FailedPollStopsPolling ==
  /\ [](\A p \in AllTasks : PollFailed(p) => StoppedByFailedPoll(p))
  /\ [][\A p \in AllTasks :
          PollFailed(p) /\ pollReply'[p] = pollReply[p]
            => NothingAfterFailedPoll(p)]_vars

C22_Witness ==
  \E p \in AllTasks :
    /\ Failed(p)
    /\ pollReply[p] = Response(503, BodyPending)
    /\ eff[p].pending = 2
    /\ eff[p].poll = 3

-----------------------------------------------------------------------------
(* Properties of the statuses that are neither Ready nor Failed *)

\* The answer a is a 200 that reports a status other than exactly "Ready"
\* and "Failed"
ReportsOther(a) ==
  /\ a.kind = "response"
  /\ a.status_code = 200
  /\ ParseJson(a.text).ok
  /\ "status" \in DOMAIN ParseJson(a.text).val
  /\ ParseJson(a.text).val.status \notin {"Ready", "Failed"}

\* Every status poll of p's returned BFL call was answered, none by Ready,
\* by Failed or by an error
OnlyOtherStatuses(p) ==
  /\ req[p].provider = "bfl"
  /\ Returned(p)
  /\ eff[p].poll > 0
  /\ eff[p].pending = eff[p].poll

\* The call ended by the timeout of the loop, after 120 polls
EndedByTimeout(p) ==
  /\ exc[p] = BFLCatch(PollTimeoutError)
  /\ eff[p].poll = max_attempts
  /\ attempt[p] = max_attempts
  /\ Failed(p)
  /\ Contains(ResponseText(p), "BFL generation timed out after 120 seconds")

\* C23: a status poll that reports a status other than exactly "Ready" and
\* "Failed" ("Pending", "Request Moderated", "Error", "ready") sends the
\* loop to its next attempt: until the next poll is sent nothing is raised
\* but the timeout of the loop, and nothing is downloaded or written.
\* A call whose polls all reported such statuses ends by the timeout of the
\* loop after 120 polls, never with success and never as a failed job.
C23_OtherStatusContinues ==
  \A p \in AllTasks :
    /\ (/\ req[p].provider = "bfl"
        /\ pc[p] # "bfl_poll"
        /\ ReportsOther(pollReply[p]))
         => /\ pollData[p] = ParseJson(pollReply[p].text).val
            /\ eff[p].pending = eff[p].poll
            /\ eff[p].download = 0
            /\ eff[p].write = "none"
            /\ ~result[p].success
            /\ exc[p] \in {NoExc, BFLCatch(PollTimeoutError)}
            /\ exc[p] = NoExc <=> pc[p] \in {"bfl_loop", "bfl_sleep"}
            /\ exc[p] # NoExc => attempt[p] = max_attempts
    /\ OnlyOtherStatuses(p)
         => /\ EndedByTimeout(p)
            /\ ~Succeeded(p)
            /\ ResponseText(p) \notin JobFailedTexts(p)
            /\ ~Contains(ResponseText(p), "BFL generation failed")

C23_Witness ==
  \E p \in AllTasks :
    /\ OnlyOtherStatuses(p)
    /\ pollReply[p] = Response(200, BodyError)
    /\ eff[p].pending = max_attempts

-----------------------------------------------------------------------------
(* Properties of the end of a call *)

\* The call of p is under way
Running(p) == p \in tasks /\ pc[p] \notin {"idle", "returned"}

\* The call of p returned one answer, the success text or the failure text
Answered(p) == Succeeded(p) \/ Failed(p)

\* The loops stay within their bounds: at most 120 sleeps and polls, and the
\* number of the name chosen is at most the number of names on the disk
LoopsBounded(p) ==
  /\ attempt[p] <= max_attempts
  /\ eff[p].sleep <= max_attempts
  /\ eff[p].poll <= max_attempts
  /\ PathComputed(p)
       => \E k \in 0..Cardinality(DOMAIN files) :
            outPath[p].name = IF k = 0 THEN BaseName(req[p], now)
                              ELSE NumberedName(BaseName(req[p], now), k)

\* C24: when every network call returns or raises, every sleep ends and a
\* task that can take a step takes one, every call of generate_image_tool
\* under way returns one answer, the success text or the failure text; the
\* polling loop makes at most 120 rounds, and the loop that numbers the file
\* name ends at a number no greater than the number of files on the disk.
C24_EveryCallReturns ==
  /\ \A p \in AllTasks : Running(p) ~> Answered(p)
  /\ [](\A p \in AllTasks : LoopsBounded(p))

C24_Witness ==
  \E p \in AllTasks :
    /\ Answered(p)
    /\ eff[p].poll = max_attempts
    /\ outPath[p].name = NumberedName(BaseName(req[p], now), 3)

-----------------------------------------------------------------------------
(* Properties of the seed shown *)

\* The text is a decimal numeral
Numeral(h) ==
  /\ Len(h) > 0
  /\ \A i \in 1..Len(h) : CharIn(Char(h, i), Digits)

\* The backend of p's call returned a numeric seed: the generation response
\* of Stability carried a Seed header that is a numeral
BackendSeed(p) ==
  /\ req[p].provider = "stability"
  /\ "headers" \in DOMAIN reply[p]
  /\ Numeral(reply[p].headers.Seed)

\* The seed line of the success text of p's call shows x
ShowsSeed(p, x) == Contains(ResponseText(p), "\n- **Seed:** " \o x \o "\n")

\* C25: the success text shows the seed the backend returned when that is
\* numeric; otherwise the seed of the caller whenever the caller gave one,
\* 0 included; and the word random only when the caller gave none.
C25_SeedShown ==
  \A p \in AllTasks :
    Succeeded(p)
      => IF BackendSeed(p) THEN ShowsSeed(p, reply[p].headers.Seed)
         ELSE IF req[p].seed.some THEN ShowsSeed(p, ToString(req[p].seed.val))
         ELSE ShowsSeed(p, "random")
====
